---- MODULE Spec2Model ----
(***************************************************************************)
(* Term-sheet validation: DataStructurer.structure_data / normalize_terms  *)
(* (backend/data_structurer.py) and TermValidator (backend/validator.py).  *)
(*                                                                         *)
(* A Python str is a sequence of one-character strings.  Characters that   *)
(* are not ASCII are written as named atoms: "GE" is U+2265, "LE" is       *)
(* U+2264, "ENDASH" is U+2013, "POUND" and "EURO" the currency signs.      *)
(* A pandas cell is a record [t, v]: t = "nan" (NaN/None), "str" (a        *)
(* string cell) or "num" (a numeric cell whose repr is v).                 *)
(***************************************************************************)
EXTENDS Integers, Sequences, FiniteSets, TLC

VARIABLES
    text,              \* raw text handed to structure_data
    ents,              \* doc.ents: what the spaCy pipeline recognised in text
    terms,             \* structure_data's / normalize_terms' input dict
    master_df,         \* the master sheet: a sequence of rows
    names,             \* history: the name normalize_terms gave to each key so far
    normalized_terms,  \* normalize_terms' dict (validate_terms' input)
    results,           \* validate_terms' list of result dicts
    libs,              \* the date libraries' answers, one per validated term
    call,              \* arguments of a single _validate_value call
    ret,               \* what that call returned
    pc,                \* position in the pipeline
    i,                 \* index of the running loop
    app_config,        \* api.py's app.config: the process-wide report slot
    requests,          \* the HTTP requests being handled, one record each
    stored,            \* history: the requests that assigned the slot, in order
    now                \* datetime.now(), in seconds

vars == <<text, ents, terms, master_df, names, normalized_terms, results, libs,
          call, ret, pc, i, app_config, requests, stored, now>>

api_vars == <<app_config, requests, stored, now>>

core_vars == <<text, ents, terms, master_df, names, normalized_terms, results, libs,
               call, ret, pc, i>>

\* no request has been received
ApiIdle ==
    /\ app_config = <<>>
    /\ requests = <<>>
    /\ stored = <<>>
    /\ now = 0

(***************************************************************************)
(* str methods                                                             *)
(***************************************************************************)
UPPER == <<"A","B","C","D","E","F","G","H","I","J","K","L","M",
           "N","O","P","Q","R","S","T","U","V","W","X","Y","Z">>

LOWER == <<"a","b","c","d","e","f","g","h","i","j","k","l","m",
           "n","o","p","q","r","s","t","u","v","w","x","y","z">>

DIGITS == <<"0","1","2","3","4","5","6","7","8","9">>

IsUpper(c) == \E k \in 1..26 : UPPER[k] = c

IsLower(c) == \E k \in 1..26 : LOWER[k] = c

IsAlpha(c) == IsUpper(c) \/ IsLower(c)

IsDigit(c) == \E k \in 1..10 : DIGITS[k] = c

IsSpace(c) == c \in {" ", "\n", "\t"}

DigitVal(c) == (CHOOSE k \in 1..10 : DIGITS[k] = c) - 1

lower_char(c) == IF IsUpper(c) THEN LOWER[CHOOSE k \in 1..26 : UPPER[k] = c] ELSE c

upper_char(c) == IF IsLower(c) THEN UPPER[CHOOSE k \in 1..26 : LOWER[k] = c] ELSE c

lower(s) == [k \in 1..Len(s) |-> lower_char(s[k])]

\* str.title(): a cased character is upper-cased when it follows an uncased
\* one (or starts the string) and lower-cased otherwise.
title(s) ==
    [k \in 1..Len(s) |->
        IF k = 1 \/ ~IsAlpha(s[k - 1]) THEN upper_char(s[k]) ELSE lower_char(s[k])]

SetMin(S) == CHOOSE x \in S : \A y \in S : x <= y

SetMax(S) == CHOOSE x \in S : \A y \in S : x >= y

strip(s) ==
    LET keep == {k \in 1..Len(s) : ~IsSpace(s[k])}
    IN  IF keep = {} THEN <<>> ELSE SubSeq(s, SetMin(keep), SetMax(keep))

\* s.replace(a, b) for single characters a and b
replace(s, a, b) == [k \in 1..Len(s) |-> IF s[k] = a THEN b ELSE s[k]]

\* c in s
contains(s, c) == \E k \in 1..Len(s) : s[k] = c

startswith(s, c) == Len(s) > 0 /\ s[1] = c

\* s.split(sep) for a single-character sep: every occurrence splits
RECURSIVE split(_, _)
split(s, sep) ==
    IF ~contains(s, sep) THEN <<s>>
    ELSE LET p == SetMin({k \in 1..Len(s) : s[k] = sep})
         IN  <<SubSeq(s, 1, p - 1)>> \o split(SubSeq(s, p + 1, Len(s)), sep)

\* s.split(sep, 1): at most one split, at the first occurrence
split1(s, sep) ==
    IF ~contains(s, sep) THEN <<s>>
    ELSE LET p == SetMin({k \in 1..Len(s) : s[k] = sep})
         IN  <<SubSeq(s, 1, p - 1), SubSeq(s, p + 1, Len(s))>>

(***************************************************************************)
(* float(): a number is [neg, ip, fp], its sign, its integer part and its  *)
(* fraction in units of 1/SCALE, so that a numeral of up to 9 integer and  *)
(* 8 fractional digits is exact within TLC's 32-bit integers.  Exponent,   *)
(* "inf" and "nan" literals are outside the model's inputs.                *)
(***************************************************************************)
SCALE == 100000000

FRAC_DIGITS == 8

RECURSIVE Pow10(_)
Pow10(n) == IF n = 0 THEN 1 ELSE 10 * Pow10(n - 1)

RECURSIVE DigitsValue(_)
DigitsValue(s) ==
    IF s = <<>> THEN 0
    ELSE 10 * DigitsValue(SubSeq(s, 1, Len(s) - 1)) + DigitVal(s[Len(s)])

Unsigned(s) == IF Len(s) > 0 /\ s[1] \in {"-", "+"} THEN Tail(s) ELSE s

\* float(s) does not raise ValueError
float_ok(s) ==
    LET b == Unsigned(strip(s))
    IN  /\ \A k \in 1..Len(b) : IsDigit(b[k]) \/ b[k] = "."
        /\ Cardinality({k \in 1..Len(b) : b[k] = "."}) <= 1
        /\ \E k \in 1..Len(b) : IsDigit(b[k])

\* float(s), for float_ok(s)
float(s) ==
    LET t    == strip(s)
        b    == Unsigned(t)
        dots == {k \in 1..Len(b) : b[k] = "."}
        p    == IF dots = {} THEN Len(b) + 1 ELSE SetMin(dots)
        ip   == DigitsValue(SubSeq(b, 1, p - 1))
        fs   == SubSeq(b, p + 1, IF Len(b) - p > FRAC_DIGITS THEN p + FRAC_DIGITS ELSE Len(b))
        fp   == DigitsValue(fs) * Pow10(FRAC_DIGITS - Len(fs))
    IN  [neg |-> startswith(t, "-") /\ (ip # 0 \/ fp # 0), ip |-> ip, fp |-> fp]

\* a < b on the magnitudes
mag_lt(a, b) == a.ip < b.ip \/ (a.ip = b.ip /\ a.fp < b.fp)

\* a < b, a <= b, a >= b
num_lt(a, b) ==
    IF a.neg /\ ~b.neg THEN TRUE
    ELSE IF ~a.neg /\ b.neg THEN FALSE
    ELSE IF a.neg THEN mag_lt(b, a) ELSE mag_lt(a, b)

num_le(a, b) == ~num_lt(b, a)

num_ge(a, b) == ~num_lt(a, b)

\* abs(a - b), as [ip, fp]
num_dist(a, b) ==
    IF a.neg = b.neg THEN
        LET hi == IF mag_lt(a, b) THEN b ELSE a
            lo == IF mag_lt(a, b) THEN a ELSE b
        IN  IF hi.fp >= lo.fp THEN [ip |-> hi.ip - lo.ip, fp |-> hi.fp - lo.fp]
            ELSE [ip |-> hi.ip - lo.ip - 1, fp |-> SCALE + hi.fp - lo.fp]
    ELSE [ip |-> a.ip + b.ip + ((a.fp + b.fp) \div SCALE), fp |-> (a.fp + b.fp) % SCALE]

\* variant: the minus sign kept
strip_numeric_keeping_sign(s) == SelectSeq(s, LAMBDA c : IsDigit(c) \/ c \in {".", "-"})

\* re.sub(r'[^0-9\.]', '', s.replace(',', ''))
strip_numeric(s) == SelectSeq(s, LAMBDA c : IsDigit(c) \/ c = ".")

\* re.sub(r'[%$£€,]', '', s)
strip_symbols(s) == SelectSeq(s, LAMBDA c : c \notin {"%", "$", "POUND", "EURO", ","})

\* np.isclose(a, b, rtol=1e-5): abs(a - b) <= atol + rtol * abs(b), with
\* numpy's default atol = 1e-8, which is ATOL_UNITS units of 1/SCALE.  The
\* right-hand side is rounded down to a whole unit, which changes nothing
\* for a left-hand side in whole units.
RTOL_INV == 100000

ATOL_UNITS == 1

isclose_tolerance(b) ==
    LET low == (b.ip % RTOL_INV) * (SCALE \div RTOL_INV) + (b.fp \div RTOL_INV) + ATOL_UNITS
    IN  [ip |-> (b.ip \div RTOL_INV) + (low \div SCALE), fp |-> low % SCALE]

\* faulty variant of isclose: equality without tolerance
isclose_exact(a, b) == a = b

isclose(a, b) == ~mag_lt(isclose_tolerance(b), num_dist(a, b))

(***************************************************************************)
(* fuzzywuzzy.fuzz.ratio: int(round(100 * 2*M/T)), M the matched           *)
(* characters (python-Levenshtein's ratio: the longest common subsequence) *)
(* and T the two lengths together; 100 for equal strings, 0 when one is    *)
(* empty.                                                                  *)
(***************************************************************************)
Max2(a, b) == IF a >= b THEN a ELSE b

RECURSIVE LcsRow(_, _, _, _)
LcsRow(prev, c, b, cur) ==
    IF Len(cur) = Len(b) + 1 THEN cur
    ELSE LET j == Len(cur)
         IN  LcsRow(prev, c, b,
                    Append(cur, IF b[j] = c THEN prev[j] + 1
                                ELSE Max2(prev[j + 1], cur[j])))

RECURSIVE LcsFrom(_, _, _, _)
LcsFrom(a, k, b, prev) ==
    IF k > Len(a) \/ Len(prev) = 0 THEN prev[Len(b) + 1]
    ELSE LcsFrom(a, k + 1, b, LcsRow(prev, a[k], b, <<0>>))

Lcs(a, b) == LcsFrom(a, 1, b, [j \in 1..(Len(b) + 1) |-> 0])

\* int(round(n / d)) for n >= 0, d > 0: Python 3 rounds halves to even
RoundDiv(n, d) ==
    LET q == n \div d
        r == n % d
    IN  IF 2 * r < d THEN q
        ELSE IF 2 * r > d THEN q + 1
        ELSE IF q % 2 = 0 THEN q ELSE q + 1

ratio(s1, s2) ==
    IF s1 = s2 THEN 100
    ELSE IF Len(s1) = 0 \/ Len(s2) = 0 THEN 0
    ELSE RoundDiv(200 * Lcs(s1, s2), Len(s1) + Len(s2))

(***************************************************************************)
(* pandas cells                                                            *)
(***************************************************************************)
NaN == [t |-> "nan", v |-> <<>>]

StrCell(s) == [t |-> "str", v |-> s]

NumCell(s) == [t |-> "num", v |-> s]

pd_isna(c) == c.t = "nan"

pd_notna(c) == c.t # "nan"

\* str(cell), for a cell that is not NaN
str(c) == c.v

(***************************************************************************)
(* The date libraries.  A date is the integer yyyymmdd; NONE is Python's   *)
(* None.  Both libraries parse an ISO date (YYYY-MM-DD) to that date.  On  *)
(* any other string made of digits and date punctuation ("6.1", "01-01")   *)
(* what they answer is the library's own affair: lib.du says whether       *)
(* dateutil's parse accepts the extracted string, lib.dp what dateparser   *)
(* returns for each such string of the call.  A string with a letter or    *)
(* another symbol is no date to either (the model's inputs hold no month   *)
(* or weekday names).                                                      *)
(***************************************************************************)
NONE == 0

DaysInMonth(y, m) ==
    IF m \in {4, 6, 9, 11} THEN 30
    ELSE IF m # 2 THEN 31
    ELSE IF y % 4 = 0 /\ (y % 100 # 0 \/ y % 400 = 0) THEN 29 ELSE 28

IsIsoDate(s) ==
    /\ Len(s) = 10
    /\ s[5] = "-" /\ s[8] = "-"
    /\ \A k \in {1, 2, 3, 4, 6, 7, 9, 10} : IsDigit(s[k])
    /\ DigitsValue(SubSeq(s, 6, 7)) \in 1..12
    /\ DigitsValue(SubSeq(s, 9, 10)) \in
           1..DaysInMonth(DigitsValue(SubSeq(s, 1, 4)), DigitsValue(SubSeq(s, 6, 7)))

IsoDateVal(s) ==
    DigitsValue(SubSeq(s, 1, 4)) * 10000 + DigitsValue(SubSeq(s, 6, 7)) * 100
        + DigitsValue(SubSeq(s, 9, 10))

DateLike(s) ==
    /\ \E k \in 1..Len(s) : IsDigit(s[k])
    /\ \A k \in 1..Len(s) : IsDigit(s[k]) \/ s[k] \in {"-", ".", "/", " ", ":"}
    /\ ~IsIsoDate(s)

\* dateutil.parser.parse(s) does not raise
date_parse_ok(s, lib) == IsIsoDate(s) \/ (DateLike(s) /\ lib.du)

\* dateparser.parse(s)
dateparser_parse(s, lib) ==
    LET t == strip(s)
    IN  IF IsIsoDate(t) THEN IsoDateVal(t)
        ELSE IF DateLike(t) /\ t \in DOMAIN lib.dp THEN lib.dp[t]
        ELSE NONE

(***************************************************************************)
(* TermValidator.  A validator body evaluates to a return (is_valid,       *)
(* notes), to "raise" (an exception left the body), or, for a range        *)
(* helper, to "fall" (the range produced no verdict).  Notes are the       *)
(* constant part of the source's message.                                  *)
(***************************************************************************)
Ret(v, n) == [k |-> "ret", is_valid |-> v, notes |-> n]

Raise == [k |-> "raise", is_valid |-> FALSE, notes |-> ""]

Fall == [k |-> "fall", is_valid |-> FALSE, notes |-> ""]

\* variant: the numeric parse attempted before the date parse
_determine_value_type_number_first(value_str, lib) ==
    IF float_ok(strip_symbols(value_str)) THEN "number"
    ELSE IF date_parse_ok(value_str, lib) THEN "date"
    ELSE "text"

\* validator.py 93-111
_determine_value_type(value_str, lib) ==
    IF date_parse_ok(value_str, lib) THEN "date"
    ELSE IF float_ok(strip_symbols(value_str)) THEN "number"
    ELSE "text"

\* the delimiter of an interval: an en-dash when there is one, else a hyphen
range_delimiter(range_str) == IF contains(range_str, "ENDASH") THEN "ENDASH" ELSE "-"

\* validator.py 127-131; comparing with None raises TypeError
date_at_least(extracted_date, min_date) ==
    IF extracted_date = NONE \/ min_date = NONE THEN Raise
    ELSE IF extracted_date >= min_date THEN Ret(TRUE, "Date is after minimum")
    ELSE Ret(FALSE, "Date is before minimum")

\* validator.py 133-137
date_at_most(extracted_date, max_date) ==
    IF extracted_date = NONE \/ max_date = NONE THEN Raise
    ELSE IF extracted_date <= max_date THEN Ret(TRUE, "Date is before maximum")
    ELSE Ret(FALSE, "Date is after maximum")

\* validator.py 145-148; a None bound raises in the comparison or in the
\* message's strftime
date_between(min_date, extracted_date, max_date) ==
    IF min_date = NONE \/ extracted_date = NONE \/ max_date = NONE THEN Raise
    ELSE IF min_date <= extracted_date /\ extracted_date <= max_date
         THEN Ret(TRUE, "Date is within range")
    ELSE Ret(FALSE, "Date is outside range")

\* validator.py 141-148
date_interval(extracted_date, parts, lib) ==
    IF Len(parts) = 2
    THEN date_between(dateparser_parse(strip(parts[1]), lib), extracted_date,
                      dateparser_parse(strip(parts[2]), lib))
    ELSE Fall

\* validator.py 123-148: the allowed-range part of _validate_date
_date_range(extracted_date, range_str, lib) ==
    IF startswith(range_str, "GE")
    THEN date_at_least(extracted_date, dateparser_parse(Tail(range_str), lib))
    ELSE IF startswith(range_str, "LE")
    THEN date_at_most(extracted_date, dateparser_parse(Tail(range_str), lib))
    ELSE IF contains(range_str, "ENDASH") \/ contains(range_str, "-")
    THEN date_interval(extracted_date, split(range_str, range_delimiter(range_str)), lib)
    ELSE Fall

\* validator.py 118-154: the verdict for a parsed date; r is what the allowed
\* range gave ("fall" when there is none or it gave no verdict)
date_verdict(extracted_date, expected_value, expected_date, r) ==
    IF pd_notna(expected_value) /\ extracted_date = expected_date
    THEN Ret(TRUE, "Date matches expected value")
    ELSE IF r.k # "fall" THEN r
    ELSE IF pd_notna(expected_value)
         THEN (IF extracted_date = NONE THEN Raise
               ELSE Ret(FALSE, "Date doesn't match expected"))
    ELSE Ret(TRUE, "No specific date validation rules")

date_checks(extracted_date, expected_value, allowed_range, lib) ==
    date_verdict(extracted_date, expected_value,
                 dateparser_parse(str(expected_value), lib),
                 IF pd_notna(allowed_range)
                 THEN _date_range(extracted_date, str(allowed_range), lib) ELSE Fall)

\* validator.py 116-154: the body of _validate_date's try
_validate_date_try(extracted_str, expected_value, allowed_range, lib) ==
    date_checks(dateparser_parse(extracted_str, lib), expected_value, allowed_range, lib)

\* validator.py 156-157: except Exception
except_date(r) == IF r.k = "raise" THEN Ret(FALSE, "Date validation error") ELSE r

_validate_date(extracted_str, expected_value, allowed_range, lib) ==
    except_date(_validate_date_try(extracted_str, expected_value, allowed_range, lib))

\* validator.py 183-187; s is the bound with all but digits and '.' removed
number_at_least(extracted_num, s) ==
    IF ~float_ok(s) THEN Raise
    ELSE IF num_ge(extracted_num, float(s))
         THEN Ret(TRUE, "Number is greater than or equal to minimum")
    ELSE Ret(FALSE, "Number is below minimum")

\* validator.py 189-193
number_at_most(extracted_num, s) ==
    IF ~float_ok(s) THEN Raise
    ELSE IF num_le(extracted_num, float(s))
         THEN Ret(TRUE, "Number is less than or equal to maximum")
    ELSE Ret(FALSE, "Number is above maximum")

\* faulty variant of number_between: the upper bound excluded
number_between_exclusive(lo, extracted_num, hi) ==
    IF ~float_ok(lo) \/ ~float_ok(hi) THEN Raise
    ELSE IF num_le(float(lo), extracted_num) /\ num_lt(extracted_num, float(hi))
         THEN Ret(TRUE, "Number is within range")
    ELSE Ret(FALSE, "Number is outside range")

\* validator.py 199-204
number_between(lo, extracted_num, hi) ==
    IF ~float_ok(lo) \/ ~float_ok(hi) THEN Raise
    ELSE IF num_le(float(lo), extracted_num) /\ num_le(extracted_num, float(hi))
         THEN Ret(TRUE, "Number is within range")
    ELSE Ret(FALSE, "Number is outside range")

\* validator.py 197-204
number_interval(extracted_num, parts) ==
    IF Len(parts) = 2
    THEN number_between(strip_numeric(parts[1]), extracted_num, strip_numeric(parts[2]))
    ELSE Fall

\* validator.py 180-204: the allowed-range part of _validate_number
_number_range(extracted_num, range_str) ==
    IF startswith(range_str, "GE")
    THEN number_at_least(extracted_num, strip_numeric(Tail(range_str)))
    ELSE IF startswith(range_str, "LE")
    THEN number_at_most(extracted_num, strip_numeric(Tail(range_str)))
    ELSE IF contains(range_str, "ENDASH") \/ contains(range_str, "-")
    THEN number_interval(extracted_num, split(range_str, range_delimiter(range_str)))
    ELSE Fall

\* validator.py 169-175: the expected value as a numeral
expected_numeral(expected_value) ==
    IF expected_value.t = "str" THEN strip_numeric(expected_value.v) ELSE expected_value.v

\* variant: an expected value that is not matched decides before the range
number_verdict_expected_first(extracted_num, expected_value, r) ==
    IF /\ pd_notna(expected_value)
       /\ isclose(extracted_num, float(expected_numeral(expected_value)))
    THEN Ret(TRUE, "Number matches expected value")
    ELSE IF pd_notna(expected_value) THEN Ret(FALSE, "Number doesn't match expected")
    ELSE IF r.k # "fall" THEN r
    ELSE Ret(TRUE, "No specific numeric validation rules")

\* validator.py 177-210: the verdict for a parsed number; r is what the
\* allowed range gave ("fall" when there is none or it gave no verdict)
number_verdict(extracted_num, expected_value, r) ==
    IF /\ pd_notna(expected_value)
       /\ isclose(extracted_num, float(expected_numeral(expected_value)))
    THEN Ret(TRUE, "Number matches expected value")
    ELSE IF r.k # "fall" THEN r
    ELSE IF pd_notna(expected_value) THEN Ret(FALSE, "Number doesn't match expected")
    ELSE Ret(TRUE, "No specific numeric validation rules")

number_checks(extracted_num, expected_value, allowed_range) ==
    number_verdict(extracted_num, expected_value,
                   IF pd_notna(allowed_range)
                   THEN _number_range(extracted_num, str(allowed_range)) ELSE Fall)

\* validator.py 162-210: the body of _validate_number's try
_validate_number_try(extracted_str, expected_value, allowed_range) ==
    IF ~float_ok(strip_numeric(extracted_str)) THEN Raise
    ELSE IF pd_notna(expected_value) /\ ~float_ok(expected_numeral(expected_value))
         THEN Raise
    ELSE number_checks(float(strip_numeric(extracted_str)), expected_value, allowed_range)

\* faulty variant of except_number: the numeric validator without its try/except
except_number_propagating(r) == r

\* validator.py 212-213: except Exception

except_number(r) == IF r.k = "raise" THEN Ret(FALSE, "Numeric validation error") ELSE r

_validate_number(extracted_str, expected_value, allowed_range) ==
    except_number(_validate_number_try(extracted_str, expected_value, allowed_range))

TEXT_THRESHOLD == 90

\* validator.py 226-230
text_similarity(similarity) ==
    IF similarity >= TEXT_THRESHOLD
    THEN Ret(TRUE, "Text matches expected value with similarity")
    ELSE Ret(FALSE, "Text doesn't match expected value")

\* validator.py 221-230, on the lower-cased strings
text_expected(extracted_lower, expected_lower) ==
    IF extracted_lower = expected_lower THEN Ret(TRUE, "Text matches expected value")
    ELSE text_similarity(ratio(extracted_lower, expected_lower))

\* validator.py 236-240
text_allowed(extracted_str, parts) ==
    IF \/ \E k \in 1..Len(parts) : extracted_str = strip(parts[k])
       \/ \E k \in 1..Len(parts) : lower(extracted_str) = lower(strip(parts[k]))
    THEN Ret(TRUE, "Text is in list of allowed values")
    ELSE Ret(FALSE, "Text is not in list of allowed values")

_validate_text(extracted_str, expected_value, allowed_range) ==
    IF pd_notna(expected_value)
    THEN text_expected(lower(extracted_str), lower(strip(str(expected_value))))
    ELSE IF pd_notna(allowed_range) /\ contains(str(allowed_range), "|")
    THEN text_allowed(extracted_str, split(str(allowed_range), "|"))
    ELSE Ret(TRUE, "No specific text validation rules")

\* validator.py 86-91
validate_as(value_type, extracted_str, expected_value, allowed_range, lib) ==
    IF value_type = "date"
    THEN _validate_date(extracted_str, expected_value, allowed_range, lib)
    ELSE IF value_type = "number"
    THEN _validate_number(extracted_str, expected_value, allowed_range)
    ELSE _validate_text(extracted_str, expected_value, allowed_range)

\* validator.py 81-91
validate_str(extracted_str, expected_value, allowed_range, lib) ==
    validate_as(_determine_value_type(extracted_str, lib), extracted_str,
                expected_value, allowed_range, lib)

\* faulty variant of _validate_value: no early return for a rule-less term
_validate_value_without_early_return(extracted_value, expected_value, allowed_range, lib) ==
    validate_str(strip(extracted_value), expected_value, allowed_range, lib)

_validate_value(extracted_value, expected_value, allowed_range, lib) ==
    IF pd_isna(expected_value) /\ pd_isna(allowed_range)
    THEN Ret(TRUE, "No validation rules specified")
    ELSE validate_str(strip(extracted_value), expected_value, allowed_range, lib)

(***************************************************************************)
(* Dicts keep insertion order: a dict is a sequence of [key, value]        *)
(* entries with distinct keys.                                             *)
(***************************************************************************)
dict_has(d, key) == \E k \in 1..Len(d) : d[k].key = key

dict_get(d, key) == d[CHOOSE k \in 1..Len(d) : d[k].key = key].value

\* d[key] = value: an existing key keeps its place
dict_set(d, key, value) ==
    IF dict_has(d, key)
    THEN [k \in 1..Len(d) |-> IF d[k].key = key THEN [key |-> key, value |-> value] ELSE d[k]]
    ELSE Append(d, [key |-> key, value |-> value])

dict_keys(d) == [k \in 1..Len(d) |-> d[k].key]

(***************************************************************************)
(* TermValidator.validate_terms                                            *)
(***************************************************************************)
OK_MARK == "check"          \* U+2705

FAIL_MARK == "cross"        \* U+274C

UNKNOWN_MARK == "question"  \* U+2753

s_NA == <<"N", "/", "A">>

s_Missing == <<"M", "i", "s", "s", "i", "n", "g">>

\* validator.py 20-26: master_dict; a later row of the same Term overwrites
\* the earlier one and keeps the earlier one's place
RECURSIVE master_dict_from(_, _)
master_dict_from(df, n) ==
    IF n = 0 THEN <<>>
    ELSE dict_set(master_dict_from(df, n - 1), df[n].Term,
                  [Expected |-> df[n].Expected, Range |-> df[n].Range])

master_dict(df) == master_dict_from(df, Len(df))

\* validator.py 41-52: the result dict of a term that has a rule; "raise"
\* when an exception leaves _validate_value
validated_result(term, extracted_value, rule, r) ==
    IF r.k = "raise" THEN Raise
    ELSE [k |-> "ret", Term |-> term, ExtractedValue |-> extracted_value,
          Status |-> IF r.is_valid THEN OK_MARK ELSE FAIL_MARK,
          ExpectedValue |-> rule.Expected, AllowedRange |-> rule.Range,
          Notes |-> r.notes]

rule_result(term, extracted_value, rule, lib) ==
    validated_result(term, extracted_value, rule,
                     _validate_value(extracted_value, rule.Expected, rule.Range, lib))

\* faulty variant of unknown_result: a term without a rule reported as Valid
unknown_result_as_valid(term, extracted_value) ==
    [k |-> "ret", Term |-> term, ExtractedValue |-> extracted_value,
     Status |-> OK_MARK,
     ExpectedValue |-> StrCell(s_NA), AllowedRange |-> StrCell(s_NA),
     Notes |-> "Term not found in master sheet"]

\* validator.py 30-37, 53-54
unknown_result(term, extracted_value) ==
    [k |-> "ret", Term |-> term, ExtractedValue |-> extracted_value,
     Status |-> UNKNOWN_MARK,
     ExpectedValue |-> StrCell(s_NA), AllowedRange |-> StrCell(s_NA),
     Notes |-> "Term not found in master sheet"]

\* validator.py 30-56: the result of one extracted term
term_result(term, extracted_value, md, lib) ==
    IF dict_has(md, term)
    THEN rule_result(term, extracted_value, dict_get(md, term), lib)
    ELSE unknown_result(term, extracted_value)

\* validator.py 61-68
missing_record(term, rule) ==
    [k |-> "ret", Term |-> term, ExtractedValue |-> s_Missing, Status |-> FAIL_MARK,
     ExpectedValue |-> rule.Expected, AllowedRange |-> rule.Range,
     Notes |-> "Term not found in document"]

missing_result(term, md) == missing_record(term, dict_get(md, term))

(***************************************************************************)
(* What the date libraries may answer within one _validate_value call.     *)
(***************************************************************************)
ORACLE_DATES == {20240615, 20260106}

DateOrNone == {NONE} \cup ORACLE_DATES

NoLib == [du |-> FALSE, dp |-> <<>>]

\* the parts of a range string that reach dateparser (validator.py 127, 133, 143-144)
RangeStrings(rs) ==
    IF startswith(rs, "GE") \/ startswith(rs, "LE") THEN {strip(Tail(rs))}
    ELSE IF Len(split(rs, range_delimiter(rs))) = 2
    THEN {strip(split(rs, range_delimiter(rs))[1]), strip(split(rs, range_delimiter(rs))[2])}
    ELSE {}

\* the strings of a call that may reach dateparser
ParsedStrings(extracted_value, expected_value, allowed_range) ==
    {strip(extracted_value)}
        \cup (IF pd_notna(expected_value) THEN {strip(str(expected_value))} ELSE {})
        \cup (IF pd_notna(allowed_range) THEN RangeStrings(str(allowed_range)) ELSE {})

LibsOn(x, amb) ==
    IF IsIsoDate(x)
    THEN {[du |-> TRUE, dp |-> f] : f \in [amb -> DateOrNone]}
    ELSE IF DateLike(x)
    THEN {[du |-> FALSE, dp |-> [s \in amb |-> NONE]]}
             \cup {[du |-> TRUE, dp |-> f] : f \in [amb -> DateOrNone]}
    ELSE {[du |-> FALSE, dp |-> [s \in amb |-> NONE]]}

Libs(extracted_value, expected_value, allowed_range) ==
    LibsOn(strip(extracted_value),
           {s \in ParsedStrings(extracted_value, expected_value, allowed_range) :
               DateLike(s)})

RuleLibs(extracted_value, rule) == Libs(extracted_value, rule.Expected, rule.Range)

TermLibs(term, extracted_value, md) ==
    IF dict_has(md, term) THEN RuleLibs(extracted_value, dict_get(md, term)) ELSE {NoLib}

(***************************************************************************)
(* validate_terms as steps: one per extracted term (validator.py 29-56),   *)
(* then one per master_dict key (58-68), then the return (70).             *)
(***************************************************************************)
\* validator.py 56: results.append(result), unless the term's validation raised
Emit(r, lib) ==
    /\ libs' = Append(libs, lib)
    /\ IF r.k = "raise"
       THEN /\ pc' = "raised"
            /\ UNCHANGED <<results, i>>
       ELSE /\ results' = Append(results, r)
            /\ i' = i + 1
            /\ pc' = pc

ValidateTerm(e, md) ==
    \E lib \in TermLibs(e.key, e.value, md) : Emit(term_result(e.key, e.value, md, lib), lib)

ValidateStep ==
    /\ pc = "validate"
    /\ i <= Len(normalized_terms)
    /\ ValidateTerm(normalized_terms[i], master_dict(master_df))
    /\ UNCHANGED api_vars
    /\ UNCHANGED <<text, ents, terms, master_df, names, normalized_terms, call, ret>>

ValidateLoopEnd ==
    /\ pc = "validate"
    /\ i > Len(normalized_terms)
    /\ pc' = "missing"
    /\ i' = 1
    /\ UNCHANGED api_vars
    /\ UNCHANGED <<text, ents, terms, master_df, names, normalized_terms, results, libs,
                   call, ret>>

\* faulty variant of AppendMissing: a Missing record for every master term
AppendMissing_unconditionally(term, md) ==
    results' = Append(results, missing_result(term, md))

\* variant: the Missing records put in front of the others
AppendMissing_in_front(term, md) ==
    results' = IF dict_has(normalized_terms, term) THEN results
               ELSE <<missing_result(term, md)>> \o results

\* validator.py 59-68
AppendMissing(term, md) ==
    results' = IF dict_has(normalized_terms, term) THEN results
               ELSE Append(results, missing_result(term, md))

MissingStep ==
    /\ pc = "missing"
    /\ i <= Len(master_dict(master_df))
    /\ AppendMissing(master_dict(master_df)[i].key, master_dict(master_df))
    /\ i' = i + 1
    /\ UNCHANGED api_vars
    /\ UNCHANGED <<text, ents, terms, master_df, names, normalized_terms, libs,
                   call, ret, pc>>

Return ==
    /\ pc = "missing"
    /\ i > Len(master_dict(master_df))
    /\ pc' = "done"
    /\ UNCHANGED api_vars
    /\ UNCHANGED <<text, ents, terms, master_df, names, normalized_terms, results, libs,
                   call, ret, i>>

(***************************************************************************)
(* Inputs of validate_terms: a rule table of at most MaxRules rows and a   *)
(* normalized mapping of at most MaxTerms entries.                         *)
(***************************************************************************)
MaxRules == 2

MaxTerms == 2

s_Principal == <<"P", "r", "i", "n", "c", "i", "p", "a", "l">>

s_Maturity_Date == <<"M", "a", "t", "u", "r", "i", "t", "y", " ", "D", "a", "t", "e">>

s_Fee == <<"F", "e", "e">>

s_6_0 == <<"6", ".", "0">>

s_2030_01_01 == <<"2", "0", "3", "0", "-", "0", "1", "-", "0", "1">>

s_abc == <<"a", "b", "c">>

s_GE_2025_01_01 == <<"GE", "2", "0", "2", "5", "-", "0", "1", "-", "0", "1">>

s_GE_abc == <<"GE", "a", "b", "c">>

\* dicts of at most n entries with keys in K and values in V
Dicts(K, V, n) ==
    UNION {{d \in [1..m -> [key : K, value : V]] :
                \A a, b \in 1..m : a # b => d[a].key # d[b].key} : m \in 0..n}

Rows(T, rules) ==
    {[Term |-> t, Expected |-> r.Expected, Range |-> r.Range] : t \in T, r \in rules}

Tables(T, rules, n) == UNION {[1..m -> Rows(T, rules)] : m \in 0..n}

BatchRules ==
    {[Expected |-> NaN, Range |-> NaN],
     [Expected |-> StrCell(s_6_0), Range |-> NaN],
     [Expected |-> NaN, Range |-> StrCell(s_GE_2025_01_01)],
     [Expected |-> NaN, Range |-> StrCell(s_GE_abc)]}

BatchValues == {s_6_0, s_2030_01_01, s_abc}

NoCall == [extracted_value |-> <<>>, expected_value |-> NaN, allowed_range |-> NaN,
           lib |-> NoLib]

NoRet == Fall

Init ==
    /\ text = <<>>
    /\ ents = <<>>
    /\ terms = <<>>
    /\ names = <<>>
    /\ master_df \in Tables({s_Principal, s_Maturity_Date}, BatchRules, MaxRules)
    /\ normalized_terms \in Dicts({s_Principal, s_Maturity_Date, s_Fee}, BatchValues, MaxTerms)
    /\ results = <<>>
    /\ libs = <<>>
    /\ call = NoCall
    /\ ret = NoRet
    /\ pc = "validate"
    /\ i = 1
    /\ ApiIdle

Next == ValidateStep \/ ValidateLoopEnd \/ MissingStep \/ Return

Spec == Init /\ [][Next]_vars

(***************************************************************************)
(* Reading a result record                                                 *)
(***************************************************************************)
IsMissingRecord(r) == r.Status = FAIL_MARK /\ r.Notes = "Term not found in document"

IsUnknownRecord(r) == r.Status = UNKNOWN_MARK

IsValidRecord(r) == r.Status = OK_MARK

IsInvalidRecord(r) == r.Status = FAIL_MARK /\ ~IsMissingRecord(r)

IsMatchedRecord(r) == IsValidRecord(r) \/ IsInvalidRecord(r)

MasterTerms == {master_df[k].Term : k \in 1..Len(master_df)}

RecordsOf(term) == {k \in 1..Len(results) : results[k].Term = term}

HasRule(term) == \E k \in 1..Len(master_df) : master_df[k].Term = term

(***************************************************************************)
(* C1: when validate_terms has returned, every distinct master term has    *)
(* exactly one record: a matched (Valid/Invalid) record when the term is a *)
(* key of the normalized mapping, otherwise a Missing record ("Term not    *)
(* found in document"); never both, never neither.                         *)
(***************************************************************************)
C1_OneRecordPerMasterTerm ==
    pc = "done" =>
        \A term \in MasterTerms :
            /\ Cardinality(RecordsOf(term)) = 1
            /\ \A k \in RecordsOf(term) :
                   IF dict_has(normalized_terms, term)
                   THEN IsMatchedRecord(results[k])
                   ELSE IsMissingRecord(results[k]) /\ results[k].ExtractedValue = s_Missing

\* master terms {Maturity Date, Principal}, only Principal extracted: 2 records,
\* one of them Missing for Maturity Date
C1_Witness ==
    /\ pc = "done"
    /\ MasterTerms = {s_Maturity_Date, s_Principal}
    /\ dict_keys(normalized_terms) = <<s_Principal>>
    /\ Len(results) = 2
    /\ IsMatchedRecord(results[1]) /\ results[1].Term = s_Principal
    /\ IsMissingRecord(results[2]) /\ results[2].Term = s_Maturity_Date

(***************************************************************************)
(* C2: the four statuses partition the records of every output: a record   *)
(* is Unknown only if its term has no master rule, Missing only if it is a *)
(* master term absent from the normalized mapping, and Valid or Invalid    *)
(* only if the term is extracted and has a master rule and the record      *)
(* carries the rule and the note of the evaluation of its value.           *)
(***************************************************************************)
C2_StatusPartition ==
    \A k \in 1..Len(results) :
        /\ Cardinality({c \in {"valid", "invalid", "unknown", "missing"} :
               \/ c = "valid" /\ IsValidRecord(results[k])
               \/ c = "invalid" /\ IsInvalidRecord(results[k])
               \/ c = "unknown" /\ IsUnknownRecord(results[k])
               \/ c = "missing" /\ IsMissingRecord(results[k])}) = 1
        /\ IsUnknownRecord(results[k]) => ~HasRule(results[k].Term)
        /\ IsMissingRecord(results[k]) =>
               HasRule(results[k].Term) /\ ~dict_has(normalized_terms, results[k].Term)
        /\ IsMatchedRecord(results[k]) =>
               /\ HasRule(results[k].Term)
               /\ dict_has(normalized_terms, results[k].Term)
               /\ results[k].ExtractedValue = dict_get(normalized_terms, results[k].Term)
               /\ results[k].ExpectedValue =
                      dict_get(master_dict(master_df), results[k].Term).Expected
               /\ results[k].Notes \notin
                      {"", "Term not found in master sheet", "Term not found in document"}

\* one output holding a Valid, and one holding an Unknown and a Missing record
C2_Witness ==
    /\ pc = "done"
    /\ Len(results) = 3
    /\ IsInvalidRecord(results[1])
    /\ IsUnknownRecord(results[2])
    /\ IsMissingRecord(results[3])

(***************************************************************************)
(* C3: validate_terms never ends by an exception; once its first loop is   *)
(* over it holds exactly one record for each normalized term, in order,    *)
(* whatever failed while validating a term (a parse of the value, of the   *)
(* expected value or of a range bound).                                    *)
(***************************************************************************)
C3_OneRecordPerTerm ==
    /\ pc \in {"validate", "missing", "done"}
    /\ pc = "validate" => Len(results) = i - 1
    /\ pc \in {"missing", "done"} =>
           /\ Len(results) >= Len(normalized_terms)
           /\ \A k \in 1..Len(normalized_terms) :
                  /\ results[k].Term = normalized_terms[k].key
                  /\ results[k].ExtractedValue = normalized_terms[k].value
                  /\ ~IsMissingRecord(results[k])
           /\ \A k \in (Len(normalized_terms) + 1)..Len(results) :
                  IsMissingRecord(results[k])

\* a batch of two terms whose first validation failed inside the numeric
\* validator and whose second was still validated
C3_Witness ==
    /\ pc = "done"
    /\ Len(normalized_terms) = 2
    /\ results[1].Notes = "Numeric validation error"
    /\ results[1].Status = FAIL_MARK
    /\ results[2].Term = normalized_terms[2].key
    /\ results[2].Status = OK_MARK

(***************************************************************************)
(* C5: a term whose rule has neither an expected value nor an allowed      *)
(* range is Valid with the note "No validation rules specified", for every *)
(* extracted value and whatever the date libraries answer.                 *)
(***************************************************************************)
RuleIsEmpty(term) ==
    /\ pd_isna(dict_get(master_dict(master_df), term).Expected)
    /\ pd_isna(dict_get(master_dict(master_df), term).Range)

C5_NoRulesIsValid ==
    \A k \in 1..Len(results) :
        (/\ k <= Len(normalized_terms)
         /\ HasRule(results[k].Term)
         /\ RuleIsEmpty(results[k].Term))
            => /\ results[k].Status = OK_MARK
               /\ results[k].Notes = "No validation rules specified"

\* a rule-less term whose value dateutil took for a date that dateparser
\* could not parse, and one whose value is text
C5_Witness ==
    /\ pc = "done"
    /\ Len(normalized_terms) = 2
    /\ \A k \in 1..2 : HasRule(results[k].Term) /\ RuleIsEmpty(results[k].Term)
    /\ normalized_terms[1].value = s_6_0
    /\ libs[1].du /\ libs[1].dp[s_6_0] = NONE
    /\ normalized_terms[2].value = s_abc
    /\ results[1].Status = OK_MARK /\ results[2].Status = OK_MARK

(***************************************************************************)
(* _validate_value on its own: one call on a value, an expected value, an  *)
(* allowed range and what the date libraries answer within the call.       *)
(***************************************************************************)
s_6_0000001 == <<"6", ".", "0", "0", "0", "0", "0", "0", "1">>

s_6_1 == <<"6", ".", "1">>

s_6_01 == <<"6", ".", "0", "1">>

s_4_5 == <<"4", ".", "5">>

s_4_49 == <<"4", ".", "4", "9">>

s_0_00010001 == <<"0", ".", "0", "0", "0", "1", "0", "0", "0", "1">>

s_0_0001 == <<"0", ".", "0", "0", "0", "1">>

s_5_5_PCT == <<"5", ".", "5", "%">>

s_6_00005 == <<"6", ".", "0", "0", "0", "0", "5">>

s_NEG_6_0 == <<"-", "6", ".", "0">>

s_4_5_to_6_0 == <<"4", ".", "5", "-", "6", ".", "0">>

s_4_5_ENDASH_6_0 == <<"4", ".", "5", "ENDASH", "6", ".", "0">>

s_4_5_PCT_ENDASH_6_0_PCT == <<"4", ".", "5", "%", "ENDASH", "6", ".", "0", "%">>

s_GE_4_5 == <<"GE", "4", ".", "5">>

s_LE_6_0 == <<"LE", "6", ".", "0">>

s_4_5_to_x == <<"4", ".", "5", "-", "x">>

s_ABC == <<"A", "B", "C">>

s_xyz == <<"x", "y", "z">>

s_abc_or_def == <<"a", "b", "c", " ", "|", " ", "d", "e", "f">>

ValueStrings ==
    {s_6_0, s_6_0000001, s_6_1, s_6_01, s_4_5, s_4_49, s_0_00010001, s_5_5_PCT,
     s_6_00005, s_NEG_6_0, s_2030_01_01, s_abc, s_ABC}

ExpectedCells ==
    {NaN, StrCell(s_6_0), StrCell(s_0_0001), NumCell(s_6_0), StrCell(s_abc), StrCell(s_xyz),
     StrCell(s_NEG_6_0)}

s_LE_2030_01_01 == <<"LE", "2", "0", "3", "0", "-", "0", "1", "-", "0", "1">>

s_2025_to_2030_ENDASH == <<"2", "0", "2", "5", "-", "0", "1", "-", "0", "1", " ", "ENDASH", " ", "2", "0", "3", "0", "-", "0", "1", "-", "0", "1">>

s_2025_to_2029_ENDASH == <<"2", "0", "2", "5", "-", "0", "1", "-", "0", "1", "ENDASH", "2", "0", "2", "9", "-", "1", "2", "-", "3", "1">>

s_2025_to_2029_HYPHEN == <<"2", "0", "2", "5", "-", "0", "1", "-", "0", "1", "-", "2", "0", "2", "9", "-", "1", "2", "-", "3", "1">>

s_4_5_to_6_0_to_7_0 == <<"4", ".", "5", "-", "6", ".", "0", "-", "7", ".", "0">>

s_GE_NEG_4_5 == <<"GE", "-", "4", ".", "5">>

RangeCells ==
    {NaN, StrCell(s_4_5_to_6_0), StrCell(s_4_5_ENDASH_6_0),
     StrCell(s_4_5_PCT_ENDASH_6_0_PCT), StrCell(s_GE_4_5), StrCell(s_LE_6_0),
     StrCell(s_4_5_to_x), StrCell(s_4_5_to_6_0_to_7_0), StrCell(s_GE_abc),
     StrCell(s_abc_or_def), StrCell(s_GE_2025_01_01), StrCell(s_LE_2030_01_01),
     StrCell(s_2025_to_2030_ENDASH), StrCell(s_2025_to_2029_ENDASH),
     StrCell(s_2025_to_2029_HYPHEN), StrCell(s_GE_NEG_4_5)}

CallsOn(extracted_value, expected_value, allowed_range) ==
    {[extracted_value |-> extracted_value, expected_value |-> expected_value,
      allowed_range |-> allowed_range, lib |-> lib] :
         lib \in Libs(extracted_value, expected_value, allowed_range)}

ValueCalls ==
    UNION {CallsOn(x, e, r) : x \in ValueStrings, e \in ExpectedCells, r \in RangeCells}

InitValue ==
    /\ text = <<>>
    /\ ents = <<>>
    /\ terms = <<>>
    /\ names = <<>>
    /\ master_df = <<>>
    /\ normalized_terms = <<>>
    /\ results = <<>>
    /\ libs = <<>>
    /\ call \in ValueCalls
    /\ ret = NoRet
    /\ pc = "call"
    /\ i = 1
    /\ ApiIdle

ValidateValue ==
    /\ pc = "call"
    /\ ret' = _validate_value(call.extracted_value, call.expected_value,
                              call.allowed_range, call.lib)
    /\ pc' = "returned"
    /\ UNCHANGED api_vars
    /\ UNCHANGED <<text, ents, terms, master_df, names, normalized_terms, results, libs,
                   call, i>>

NextValue == ValidateValue

SpecValue == InitValue /\ [][NextValue]_vars

\* a number of the model's inputs in units of 10^-8
Units(n) == n.ip * SCALE + n.fp

AbsDiff(a, b) == IF a >= b THEN a - b ELSE b - a

\* the number _validate_number reads from a string
ParsedUnits(s) == Units(float(strip_numeric(s)))

\* the number read from a bound or a value: digits and '.' only, so never negative
Parsed(s) == float(strip_numeric(s))

AtMost(a, b) == a.ip < b.ip \/ (a.ip = b.ip /\ a.fp <= b.fp)

\* the call went to the numeric validator with a readable extracted number
NumericCall ==
    /\ pc = "returned"
    /\ _determine_value_type(strip(call.extracted_value), call.lib) = "number"
    /\ float_ok(strip_numeric(strip(call.extracted_value)))

ExpectedIsNumber ==
    /\ pd_notna(call.expected_value)
    /\ float_ok(expected_numeral(call.expected_value))

ExpectedUnits == Units(float(expected_numeral(call.expected_value)))

ExtractedUnits == ParsedUnits(strip(call.extracted_value))

(***************************************************************************)
(* C6: in the numeric domain with an expected number and no allowed range  *)
(* the verdict is Valid iff |x - e| <= 1e-8 + 1e-5 * |e| (numpy.isclose    *)
(* with rtol 1e-5 and its default absolute tolerance): expected 6.0 with   *)
(* extracted '6.0000001' is Valid, with extracted '6.1' is Invalid.        *)
(***************************************************************************)
C6_Case == NumericCall /\ ExpectedIsNumber /\ pd_isna(call.allowed_range)

C6_ExpectedWithinTolerance ==
    C6_Case =>
        /\ ret.k = "ret"
        /\ ret.is_valid <=>
               AbsDiff(ExtractedUnits, ExpectedUnits)
                   <= ATOL_UNITS + (ExpectedUnits \div RTOL_INV)
        /\ (call.extracted_value = s_6_0000001 /\ ExpectedUnits = 6 * SCALE)
               => ret.is_valid
        /\ (call.extracted_value = s_6_1 /\ ExpectedUnits = 6 * SCALE)
               => ~ret.is_valid

\* expected 6.0, extracted '6.0000001', validated as a number: Valid
C6_Witness ==
    /\ C6_Case
    /\ call.extracted_value = s_6_0000001
    /\ call.expected_value = StrCell(s_6_0)
    /\ ret = Ret(TRUE, "Number matches expected value")

\* C6 as stated, the tolerance purely relative: Valid iff |x - e| <= 1e-5 * |e|
C6_RelativeToleranceOnly ==
    C6_Case =>
        (ret.is_valid <=>
             AbsDiff(ExtractedUnits, ExpectedUnits) <= ExpectedUnits \div RTOL_INV)

(***************************************************************************)
(* C7: in the numeric domain, with an allowed range 'A-B' or 'A(en-dash)B' *)
(* of two numbers and no expected value or an expected number the value    *)
(* does not match, the verdict is Valid iff A <= x <= B, both ends         *)
(* included: range '4.5-6.0' with extracted '6.0' is Valid, with '6.01'    *)
(* Invalid, and x = A is Valid.                                            *)
(***************************************************************************)
RangeParts == split(str(call.allowed_range), range_delimiter(str(call.allowed_range)))

RangeIsInterval ==
    /\ pd_notna(call.allowed_range)
    /\ ~startswith(str(call.allowed_range), "GE")
    /\ ~startswith(str(call.allowed_range), "LE")
    /\ Len(RangeParts) = 2
    /\ float_ok(strip_numeric(RangeParts[1]))
    /\ float_ok(strip_numeric(RangeParts[2]))

NoMatchingExpected ==
    \/ pd_isna(call.expected_value)
    \/ /\ ExpectedIsNumber
       /\ AbsDiff(ExtractedUnits, ExpectedUnits) > ATOL_UNITS + (ExpectedUnits \div RTOL_INV)

C7_Case == NumericCall /\ RangeIsInterval /\ NoMatchingExpected

C7_RangeInclusive ==
    C7_Case =>
        /\ ret.k = "ret"
        /\ ret.is_valid <=>
               /\ AtMost(Parsed(RangeParts[1]), Parsed(strip(call.extracted_value)))
               /\ AtMost(Parsed(strip(call.extracted_value)), Parsed(RangeParts[2]))
        /\ (call.allowed_range = StrCell(s_4_5_to_6_0) /\ call.extracted_value = s_6_0)
               => ret.is_valid
        /\ (call.allowed_range = StrCell(s_4_5_to_6_0) /\ call.extracted_value = s_6_01)
               => ~ret.is_valid

\* range '4.5-6.0', the expected value 0.0001 not matched, extracted '6.0' = B: Valid
C7_Witness ==
    /\ C7_Case
    /\ call.allowed_range = StrCell(s_4_5_to_6_0)
    /\ call.expected_value = StrCell(s_0_0001)
    /\ call.extracted_value = s_6_0
    /\ ret = Ret(TRUE, "Number is within range")

(***************************************************************************)
(* DataStructurer.normalize_terms (data_structurer.py 124-185), for a      *)
(* master sheet that has a 'Term' column of strings.                       *)
(***************************************************************************)
\* data_structurer.py 144
master_terms(df) == [k \in 1..Len(df) |-> lower(df[k].Term)]

\* data_structurer.py 150
display_key(key) == replace(key, "_", " ")

\* x in a list
list_contains(l, x) == \E k \in 1..Len(l) : l[k] = x

\* data_structurer.py 155, 171: master_df[master_df['Term'].str.lower() == t]['Term']
original_case_terms(df, t) == {k \in 1..Len(df) : lower(df[k].Term) = t}

\* .iloc[0]
original_case_term(df, t) == df[SetMin(original_case_terms(df, t))].Term

FUZZY_THRESHOLD == 60

NoMatch == [found |-> FALSE, match |-> <<>>, score |-> 0]

\* faulty variant of better_match: a score equal to the threshold is accepted
better_match_at_threshold(best, master_term, score) ==
    IF score > best.score /\ score >= FUZZY_THRESHOLD
    THEN [found |-> TRUE, match |-> master_term, score |-> score]
    ELSE best

\* faulty variant of better_match: a later entry with an equal score replaces
\* the earlier one
better_match_last_wins(best, master_term, score) ==
    IF score >= best.score /\ score > FUZZY_THRESHOLD
    THEN [found |-> TRUE, match |-> master_term, score |-> score]
    ELSE best

\* data_structurer.py 165-167
better_match(best, master_term, score) ==
    IF score > best.score /\ score > FUZZY_THRESHOLD
    THEN [found |-> TRUE, match |-> master_term, score |-> score]
    ELSE best

\* data_structurer.py 160-167: the loop over master_terms from entry k on
RECURSIVE best_match_from(_, _, _, _)
best_match_from(key_lower, mts, k, best) ==
    IF k > Len(mts) THEN best
    ELSE best_match_from(key_lower, mts, k + 1,
             better_match(best, mts[k], ratio(key_lower, lower(mts[k]))))

best_match(key_lower, mts) == best_match_from(key_lower, mts, 1, NoMatch)

\* variant: an unmatched key stored under the first master term
fuzzy_name_first_term(dk, df, best) ==
    IF best.found /\ best.match # <<>>
    THEN IF original_case_terms(df, best.match) # {}
         THEN original_case_term(df, best.match)
         ELSE title(best.match)
    ELSE IF Len(df) > 0 THEN df[1].Term
    ELSE title(dk)

\* data_structurer.py 169-182
fuzzy_name(dk, df, best) ==
    IF best.found /\ best.match # <<>>
    THEN IF original_case_terms(df, best.match) # {}
         THEN original_case_term(df, best.match)
         ELSE title(best.match)
    ELSE title(dk)

\* faulty variant of exact_name: the key's own casing kept
exact_name_as_typed(dk, df) == dk

\* data_structurer.py 153-157
exact_name(dk, df) == original_case_term(df, lower(dk))

\* data_structurer.py 148-182: the name under which one key is stored
normalized_name(dk, df) ==
    IF list_contains(master_terms(df), lower(dk))
    THEN exact_name(dk, df)
    ELSE fuzzy_name(dk, df, best_match(lower(dk), master_terms(df)))

\* variant: a name already stored keeps its value
StoreTerm_keeping_first(name, value) ==
    /\ normalized_terms' = IF dict_has(normalized_terms, name) THEN normalized_terms
                           ELSE dict_set(normalized_terms, name, value)
    /\ names' = Append(names, name)

\* data_structurer.py 183: normalized_terms[normalized_name] = value
StoreTerm(name, value) ==
    /\ normalized_terms' = dict_set(normalized_terms, name, value)
    /\ names' = Append(names, name)

NormalizeStep ==
    /\ pc = "normalize"
    /\ i <= Len(terms)
    /\ StoreTerm(normalized_name(display_key(terms[i].key), master_df), terms[i].value)
    /\ i' = i + 1
    /\ UNCHANGED api_vars
    /\ UNCHANGED <<text, ents, terms, master_df, results, libs, call, ret, pc>>

\* data_structurer.py 185
NormalizeReturn ==
    /\ pc = "normalize"
    /\ i > Len(terms)
    /\ pc' = "normalized"
    /\ UNCHANGED api_vars
    /\ UNCHANGED <<text, ents, terms, master_df, names, normalized_terms, results, libs,
                   call, ret, i>>

(***************************************************************************)
(* Inputs of normalize_terms: a vocabulary of at most MaxVocabulary rows   *)
(* and at most MaxKeys extracted keys.                                     *)
(***************************************************************************)
MaxVocabulary == 2

MaxKeys == 2

s_interest_rate_key == <<"i", "n", "t", "e", "r", "e", "s", "t", "_", "r", "a", "t", "e">>

s_Interest_Rate == <<"I", "n", "t", "e", "r", "e", "s", "t", " ", "R", "a", "t", "e">>

s_INTEREST_RATE == <<"I", "N", "T", "E", "R", "E", "S", "T", " ", "R", "A", "T", "E">>

s_fee == <<"f", "e", "e">>

s_Fees == <<"F", "e", "e", "s">>

s_Feed == <<"F", "e", "e", "d">>

s_Feesss == <<"F", "e", "e", "s", "s", "s">>

s_ghijklmnopq == <<"g", "h", "i", "j", "k", "l", "m", "n", "o", "p", "q">>

s_Ghijklmrstuv == <<"G", "h", "i", "j", "k", "l", "m", "r", "s", "t", "u", "v">>

s_abcxy == <<"a", "b", "c", "x", "y">>

s_Abcde == <<"A", "b", "c", "d", "e">>

s_Zz == <<"Z", "z">>

s_v1 == <<"1">>

s_v2 == <<"2">>

VocabularyTerms ==
    {s_Interest_Rate, s_INTEREST_RATE, s_Fees, s_Feed, s_Feesss, s_Ghijklmrstuv,
     s_Abcde, s_Zz}

ExtractedKeys == {s_interest_rate_key, s_Interest_Rate, s_fee, s_ghijklmnopq, s_abcxy}

InitNormalize ==
    /\ text = <<>>
    /\ ents = <<>>
    /\ terms \in Dicts(ExtractedKeys, {s_v1, s_v2}, MaxKeys)
    /\ master_df \in Tables(VocabularyTerms, {[Expected |-> NaN, Range |-> NaN]},
                            MaxVocabulary)
    /\ names = <<>>
    /\ normalized_terms = <<>>
    /\ results = <<>>
    /\ libs = <<>>
    /\ call = NoCall
    /\ ret = NoRet
    /\ pc = "normalize"
    /\ i = 1
    /\ ApiIdle

NextNormalize == NormalizeStep \/ NormalizeReturn

SpecNormalize == InitNormalize /\ [][NextNormalize]_vars

\* similarity of a display key to the Term of row r
Score(dk, r) == ratio(lower(dk), lower(master_df[r].Term))

MaxScore(dk) == SetMax({0} \cup {Score(dk, r) : r \in 1..Len(master_df)})

HasExact(dk) == \E r \in 1..Len(master_df) : lower(master_df[r].Term) = lower(dk)

FirstRow(R) == master_df[SetMin(R)].Term

IsVocabularyTerm(name) == \E r \in 1..Len(master_df) : master_df[r].Term = name

\* the display key of the k-th extracted key
KeyAt(k) == display_key(terms[k].key)

(***************************************************************************)
(* C8: whenever the display form of an extracted key equals a vocabulary   *)
(* entry ignoring case, the name it is stored under is the first such      *)
(* entry in the vocabulary's own casing, whatever its scores to the other  *)
(* entries.                                                                *)
(***************************************************************************)
C8_ExactName(name, dk) ==
    HasExact(dk) =>
        /\ name = FirstRow({r \in 1..Len(master_df) : lower(master_df[r].Term) = lower(dk)})
        /\ lower(name) = lower(dk)
        /\ dict_has(normalized_terms, name)

C8_ExactBeforeFuzzy == \A k \in 1..Len(names) : C8_ExactName(names[k], KeyAt(k))

\* key 'interest_rate' against the vocabulary [Fees, INTEREST RATE]
C8_Witness ==
    /\ Len(names) = 1
    /\ Len(master_df) = 2
    /\ terms[1].key = s_interest_rate_key
    /\ master_df[1].Term = s_Fees
    /\ master_df[2].Term = s_INTEREST_RATE
    /\ names[1] = s_INTEREST_RATE
    /\ normalized_terms = <<[key |-> s_INTEREST_RATE, value |-> terms[1].value]>>

(***************************************************************************)
(* C9: without an exact match, a key is stored under a vocabulary entry    *)
(* iff its maximum score over the vocabulary is greater than 60; a key     *)
(* scoring 61 against one entry and 0 against the rest goes to that entry, *)
(* a key whose maximum is 60 or below goes to the title-cased display form *)
(* and to no vocabulary entry.                                             *)
(***************************************************************************)
C9_FuzzyName(name, dk) ==
    ~HasExact(dk) =>
        /\ IsVocabularyTerm(name) <=> MaxScore(dk) > 60
        /\ MaxScore(dk) > 60 => \E r \in 1..Len(master_df) :
                                    name = master_df[r].Term /\ Score(dk, r) > 60
        /\ MaxScore(dk) <= 60 => name = title(dk)
        /\ dict_has(normalized_terms, name)

C9_FuzzyThreshold == \A k \in 1..Len(names) : C9_FuzzyName(names[k], KeyAt(k))

\* vocabulary [Ghijklmrstuv, Abcde]: 'ghijklmnopq' scores 61 and 0 and is
\* matched, 'abcxy' scores 0 and 60 and falls back to 'Abcxy'
C9_Witness ==
    /\ pc = "normalized"
    /\ Len(master_df) = 2
    /\ Len(terms) = 2
    /\ master_df[1].Term = s_Ghijklmrstuv /\ master_df[2].Term = s_Abcde
    /\ terms[1].key = s_ghijklmnopq /\ terms[2].key = s_abcxy
    /\ Score(s_ghijklmnopq, 1) = 61 /\ Score(s_ghijklmnopq, 2) = 0
    /\ Score(s_abcxy, 1) = 0 /\ Score(s_abcxy, 2) = 60
    /\ names = <<s_Ghijklmrstuv, title(s_abcxy)>>

(***************************************************************************)
(* C10: on the fuzzy path the chosen entry has the maximum score over the  *)
(* whole vocabulary, and of several entries with that score it is the      *)
(* first in table order.                                                   *)
(***************************************************************************)
C10_BestName(name, dk) ==
    (~HasExact(dk) /\ MaxScore(dk) > 60) =>
        name = FirstRow({r \in 1..Len(master_df) : Score(dk, r) = MaxScore(dk)})

C10_FirstMaximum == \A k \in 1..Len(names) : C10_BestName(names[k], KeyAt(k))

\* 'fee' scores 86 against both Feed and Fees; Feed comes first
C10_Witness ==
    /\ Len(names) = 1
    /\ Len(master_df) = 2
    /\ terms[1].key = s_fee
    /\ master_df[1].Term = s_Feed /\ master_df[2].Term = s_Fees
    /\ Score(s_fee, 1) = 86 /\ Score(s_fee, 2) = 86
    /\ names[1] = s_Feed

(***************************************************************************)
(* re: a compiled pattern is a tree of nodes; matching at a position       *)
(* yields the ways to match in the order a backtracking matcher tries them *)
(* (greedy repetition first), each with the end of the match and the span  *)
(* of group 1.  All patterns are compiled with re.IGNORECASE.              *)
(***************************************************************************)
Chr(S) == [op |-> "chr", set |-> S]

Cat(args) == [op |-> "cat", args |-> args]

Alt(args) == [op |-> "alt", args |-> args]

\* [S]*
Star(S) == [op |-> "star", set |-> S]

Grp(n) == [op |-> "grp", arg |-> n]

Opt(n) == Alt(<<n, Cat(<<>>)>>)

\* [S]+
Plus(S) == Cat(<<Chr(S), Star(S)>>)

Lit(s) == Cat([k \in 1..Len(s) |-> Chr({s[k]})])

\* a character matches a set when it, or its other case, is in the set
CharIn(c, S) == c \in S \/ lower_char(c) \in S \/ upper_char(c) \in S

\* the end of the longest run of characters of S in s from position p
RunEnd(s, p, S) == SetMin({k \in p..(Len(s) + 1) : k = Len(s) + 1 \/ ~CharIn(s[k], S)})

\* greedy repetition: the longest run first, then each shorter one
Runs(r, end) == [k \in 1..(end - r.e + 1) |-> [e |-> end - k + 1, gs |-> r.gs, ge |-> r.ge]]

Capture(rs, p) == [k \in 1..Len(rs) |-> [e |-> rs[k].e, gs |-> p, ge |-> rs[k].e]]

RECURSIVE Match(_, _, _)
RECURSIVE MatchEach(_, _, _, _)
RECURSIVE MatchCat(_, _, _, _)
RECURSIVE MatchAlt(_, _, _, _)

\* the matches of node re on s from each of the partial matches rs[k..], in order
MatchEach(re, s, rs, k) ==
    IF k > Len(rs) THEN <<>>
    ELSE Match(re, s, rs[k]) \o MatchEach(re, s, rs, k + 1)

MatchCat(args, k, s, rs) ==
    IF k > Len(args) \/ Len(rs) = 0 THEN rs
    ELSE MatchCat(args, k + 1, s, MatchEach(args[k], s, rs, 1))

MatchAlt(args, k, s, r) ==
    IF k > Len(args) THEN <<>>
    ELSE Match(args[k], s, r) \o MatchAlt(args, k + 1, s, r)

Match(re, s, r) ==
    CASE re.op = "chr" ->
             IF r.e <= Len(s) /\ CharIn(s[r.e], re.set)
             THEN <<[e |-> r.e + 1, gs |-> r.gs, ge |-> r.ge]>>
             ELSE <<>>
      [] re.op = "cat" -> MatchCat(re.args, 1, s, <<r>>)
      [] re.op = "alt" -> MatchAlt(re.args, 1, s, r)
      [] re.op = "star" -> Runs(r, RunEnd(s, r.e, re.set))
      [] re.op = "grp" -> Capture(Match(re.arg, s, r), r.e)

MatchAt(re, s, p) == Match(re, s, [e |-> p, gs |-> 0, ge |-> 0])

\* pattern.finditer(text): the first match is the leftmost one
MatchStarts(re, s) == {p \in 1..Len(s) : MatchAt(re, s, p) # <<>>}

has_match(re, s) == MatchStarts(re, s) # {}

first_match(re, s) == MatchAt(re, s, SetMin(MatchStarts(re, s)))[1]

span(s, m) == SubSeq(s, m.gs, m.ge - 1)

\* match.group(1) of the first match
group1(re, s) == span(s, first_match(re, s))

(***************************************************************************)
(* DataStructurer.__init__ (data_structurer.py 19-38)                      *)
(***************************************************************************)

SEP == Opt(Chr({":", "=", "-"}))

CURRENCY == Opt(Chr({"$", "POUND", "EURO"}))

Letters == {LOWER[k] : k \in 1..26} \cup {UPPER[k] : k \in 1..26}

Digits == {DIGITS[k] : k \in 1..10}

Spaces == {" ", "\n", "\t"}

WS == Star(Spaces)

NameChars == Letters \cup Digits \cup Spaces \cup {"-", ".", ",", "&"}

PartyTail == <<WS, SEP, WS, Grp(Plus(NameChars))>>

pattern_interest_rate ==
    Cat(<<Lit(<<"i", "n", "t", "e", "r", "e", "s", "t">>), WS, Lit(<<"r", "a", "t", "e">>), WS, SEP, WS,
          Grp(Plus(Digits \cup {"."})), WS, Chr({"%"})>>)

pattern_maturity_date ==
    Cat(<<Lit(<<"m", "a", "t", "u", "r", "i", "t", "y">>), WS, Lit(<<"d", "a", "t", "e">>), WS, SEP, WS,
          Grp(Plus(Letters \cup Digits \cup Spaces \cup {"-", ".", ",", "/"}))>>)

pattern_principal ==
    Cat(<<Lit(<<"p", "r", "i", "n", "c", "i", "p", "a", "l">>), WS, SEP, WS, CURRENCY, WS,
          Grp(Plus(Digits \cup {",", "."}))>>)

pattern_counterparty ==
    Cat(<<Alt(<<Lit(<<"c", "o", "u", "n", "t", "e", "r", "p", "a", "r", "t", "y">>),
                Cat(<<Lit(<<"c", "o", "u", "n", "t", "e", "r">>), Opt(Chr({"/", "-", " "})), Lit(<<"p", "a", "r", "t", "y">>)>>),
                Lit(<<"c", "o", "u", "n", "t", "e", "r", "-", "p", "a", "r", "t", "y">>)>>)>> \o PartyTail)

pattern_governing_law ==
    Cat(<<Lit(<<"g", "o", "v", "e", "r", "n", "i", "n", "g">>), WS, Lit(<<"l", "a", "w">>), WS, SEP, WS,
          Grp(Plus(Letters \cup Spaces))>>)

pattern_loan_amount ==
    Cat(<<Alt(<<Lit(<<"l", "o", "a", "n">>), Lit(<<"f", "a", "c", "i", "l", "i", "t", "y">>)>>), WS, Lit(<<"a", "m", "o", "u", "n", "t">>), WS, SEP, WS,
          CURRENCY, WS,
          Grp(Cat(<<Plus(Digits \cup {",", "."}), WS,
                    Opt(Alt(<<Lit(<<"m", "i", "l", "l", "i", "o", "n">>), Lit(<<"b", "i", "l", "l", "i", "o", "n">>),
                              Lit(<<"m">>), Lit(<<"b">>)>>))>>))>>)

pattern_borrower == Cat(<<Lit(<<"b", "o", "r", "r", "o", "w", "e", "r">>)>> \o PartyTail)

pattern_lender == Cat(<<Lit(<<"l", "e", "n", "d", "e", "r">>)>> \o PartyTail)

patterns ==
    <<[key |-> <<"i", "n", "t", "e", "r", "e", "s", "t", "_", "r", "a", "t", "e">>, pattern |-> pattern_interest_rate],
      [key |-> <<"m", "a", "t", "u", "r", "i", "t", "y", "_", "d", "a", "t", "e">>, pattern |-> pattern_maturity_date],
      [key |-> <<"p", "r", "i", "n", "c", "i", "p", "a", "l">>, pattern |-> pattern_principal],
      [key |-> <<"c", "o", "u", "n", "t", "e", "r", "p", "a", "r", "t", "y">>, pattern |-> pattern_counterparty],
      [key |-> <<"g", "o", "v", "e", "r", "n", "i", "n", "g", "_", "l", "a", "w">>, pattern |-> pattern_governing_law],
      [key |-> <<"l", "o", "a", "n", "_", "a", "m", "o", "u", "n", "t">>, pattern |-> pattern_loan_amount],
      [key |-> <<"b", "o", "r", "r", "o", "w", "e", "r">>, pattern |-> pattern_borrower],
      [key |-> <<"l", "e", "n", "d", "e", "r">>, pattern |-> pattern_lender]>>

financial_terms ==
    <<<<"i", "n", "t", "e", "r", "e", "s", "t", " ", "r", "a", "t", "e">>,
      <<"m", "a", "t", "u", "r", "i", "t", "y", " ", "d", "a", "t", "e">>,
      <<"p", "r", "i", "n", "c", "i", "p", "a", "l">>,
      <<"c", "o", "u", "p", "o", "n">>,
      <<"g", "o", "v", "e", "r", "n", "i", "n", "g", " ", "l", "a", "w">>,
      <<"c", "o", "u", "n", "t", "e", "r", "p", "a", "r", "t", "y">>,
      <<"c", "o", "l", "l", "a", "t", "e", "r", "a", "l">>,
      <<"a", "m", "o", "r", "t", "i", "z", "a", "t", "i", "o", "n">>,
      <<"d", "e", "f", "a", "u", "l", "t", " ", "r", "a", "t", "e">>,
      <<"p", "r", "e", "p", "a", "y", "m", "e", "n", "t", " ", "p", "e", "n", "a", "l", "t", "y">>,
      <<"t", "e", "r", "m">>,
      <<"c", "l", "o", "s", "i", "n", "g", " ", "d", "a", "t", "e">>,
      <<"l", "o", "a", "n", " ", "a", "m", "o", "u", "n", "t">>,
      <<"b", "o", "r", "r", "o", "w", "e", "r">>,
      <<"l", "e", "n", "d", "e", "r">>,
      <<"f", "a", "c", "i", "l", "i", "t", "y">>,
      <<"c", "o", "m", "m", "i", "t", "m", "e", "n", "t">>,
      <<"p", "r", "i", "c", "i", "n", "g">>,
      <<"m", "a", "r", "g", "i", "n">>,
      <<"f", "e", "e">>,
      <<"d", "o", "c", "u", "m", "e", "n", "t", "a", "t", "i", "o", "n">>,
      <<"s", "e", "c", "u", "r", "i", "t", "y">>,
      <<"c", "o", "v", "e", "n", "a", "n", "t">>,
      <<"d", "e", "b", "t">>,
      <<"e", "q", "u", "i", "t", "y">>,
      <<"c", "u", "r", "r", "e", "n", "c", "y">>,
      <<"p", "a", "y", "m", "e", "n", "t", " ", "d", "a", "t", "e">>,
      <<"r", "e", "p", "a", "y", "m", "e", "n", "t">>,
      <<"d", "e", "f", "a", "u", "l", "t">>>>

(***************************************************************************)
(* DataStructurer.structure_data (data_structurer.py 40-122).  The text is *)
(* shorter than the 100000 characters handed to the spaCy pipeline; an     *)
(* entity of doc.ents is [label_, text, start_char].                       *)
(***************************************************************************)
\* data_structurer.py 48-52: patterns k.. applied to the text
RECURSIVE apply_patterns(_, _, _)
apply_patterns(d, s, k) ==
    IF k > Len(patterns) THEN d
    ELSE apply_patterns(
             IF has_match(patterns[k].pattern, s) /\ ~dict_has(d, patterns[k].key)
             THEN dict_set(d, patterns[k].key, strip(group1(patterns[k].pattern, s)))
             ELSE d,
             s, k + 1)

\* sub in s
find(sub, s) == \E k \in 1..(Len(s) - Len(sub) + 1) : SubSeq(s, k, k + Len(sub) - 1) = sub

\* text[max(0, start_char - n):start_char].lower()
window(s, start_char, n) ==
    lower(SubSeq(s, (IF start_char > n THEN start_char - n ELSE 0) + 1, start_char))

any_in(words, s) == \E w \in words : find(w, s)

\* the decimal digit of d at 10^k, as a character
digit_char(d, k) == DIGITS[((d \div Pow10(k)) % 10) + 1]

\* datetime.strftime('%Y-%m-%d')
strftime(d) ==
    <<digit_char(d, 7), digit_char(d, 6), digit_char(d, 5), digit_char(d, 4), "-",
      digit_char(d, 3), digit_char(d, 2), "-", digit_char(d, 1), digit_char(d, 0)>>

\* the first entity, in document order, among those at the indices K
first_ent(es, K) == es[SetMin(K)]

\* the indices of the entities carrying a label
label_ents(es, label) == {k \in 1..Len(es) : es[k].label_ = label}

DateKeywords == {<<"m", "a", "t", "u", "r", "i", "t", "y">>, <<"m", "a", "t", "u", "r", "e", "s">>, <<"d", "u", "e">>}

RateKeywords == {<<"i", "n", "t", "e", "r", "e", "s", "t">>, <<"r", "a", "t", "e">>, <<"c", "o", "u", "p", "o", "n">>}

AmountKeywords == {<<"p", "r", "i", "n", "c", "i", "p", "a", "l">>, <<"a", "m", "o", "u", "n", "t">>}

s_maturity_date_key == <<"m", "a", "t", "u", "r", "i", "t", "y", "_", "d", "a", "t", "e">>

s_principal_key == <<"p", "r", "i", "n", "c", "i", "p", "a", "l">>

s_counterparty_key == <<"c", "o", "u", "n", "t", "e", "r", "p", "a", "r", "t", "y">>

s_loan_amount_key == <<"l", "o", "a", "n", "_", "a", "m", "o", "u", "n", "t">>

DATE_WINDOW == 40

AMOUNT_WINDOW == 30

is_date_ent(s, ent) ==
    ent.label_ = "DATE" /\ any_in(DateKeywords, window(s, ent.start_char, DATE_WINDOW))

is_percent_ent(s, ent) ==
    ent.label_ = "PERCENT" /\ any_in(RateKeywords, window(s, ent.start_char, DATE_WINDOW))

\* the indices of the DATE entities preceded by a maturity keyword
date_ents(s, es) == {k \in 1..Len(es) : is_date_ent(s, es[k])}

\* the indices of the PERCENT entities preceded by a rate keyword
percent_ents(s, es) == {k \in 1..Len(es) : is_percent_ent(s, es[k])}

\* data_structurer.py 64-68
date_text(date_str, parsed_date) ==
    IF parsed_date # NONE THEN strftime(parsed_date) ELSE date_str

\* data_structurer.py 58-69
entity_date(d, s, es, lib) ==
    IF ~dict_has(d, s_maturity_date_key) /\ date_ents(s, es) # {}
    THEN dict_set(d, s_maturity_date_key,
                  date_text(first_ent(es, date_ents(s, es)).text,
                            dateparser_parse(first_ent(es, date_ents(s, es)).text, lib)))
    ELSE d

\* variant: the PERCENT rule writing without the "label absent" test
entity_percent_overwriting(d, s, es) ==
    IF percent_ents(s, es) # {}
    THEN dict_set(d, s_interest_rate_key, first_ent(es, percent_ents(s, es)).text)
    ELSE d

\* data_structurer.py 72-77
entity_percent(d, s, es) ==
    IF ~dict_has(d, s_interest_rate_key) /\ percent_ents(s, es) # {}
    THEN dict_set(d, s_interest_rate_key, first_ent(es, percent_ents(s, es)).text)
    ELSE d

\* data_structurer.py 80-84
entity_org(d, es) ==
    IF ~dict_has(d, s_counterparty_key) /\ label_ents(es, "ORG") # {}
    THEN dict_set(d, s_counterparty_key, first_ent(es, label_ents(es, "ORG")).text)
    ELSE d

\* data_structurer.py 89-92: the first MONEY entity, taken when a keyword precedes it
money_ent(d, s, ent) ==
    IF any_in(AmountKeywords, window(s, ent.start_char, AMOUNT_WINDOW))
    THEN dict_set(d, s_principal_key, ent.text)
    ELSE d

\* data_structurer.py 87-92
entity_money(d, s, es) ==
    IF /\ ~dict_has(d, s_principal_key)
       /\ ~dict_has(d, s_loan_amount_key)
       /\ label_ents(es, "MONEY") # {}
    THEN money_ent(d, s, first_ent(es, label_ents(es, "MONEY")))
    ELSE d

\* data_structurer.py 58-92
entity_terms(d, s, es, lib) ==
    entity_money(entity_org(entity_percent(entity_date(d, s, es, lib), s, es), es), s, es)

LINE_THRESHOLD == 65

\* variant: a similarity equal to the threshold passes as well
passing_terms_at_threshold(key) ==
    {k \in 1..Len(financial_terms) : ratio(key, financial_terms[k]) >= LINE_THRESHOLD}

\* data_structurer.py 114-118: the fixed terms whose similarity passes
passing_terms(key) ==
    {k \in 1..Len(financial_terms) : ratio(key, financial_terms[k]) > LINE_THRESHOLD}

\* the first of them in list order
fuzzy_write(d, value, passing) ==
    IF passing = {} THEN d
    ELSE dict_set(d, replace(financial_terms[SetMin(passing)], " ", "_"), value)

\* variant: the line stage writing a label only when it is absent
line_write_if_absent(d, key, value) ==
    IF value = <<>> THEN d
    ELSE IF list_contains(financial_terms, key)
         THEN IF dict_has(d, replace(key, " ", "_")) THEN d
              ELSE dict_set(d, replace(key, " ", "_"), value)
    ELSE IF passing_terms(key) = {} THEN d
    ELSE IF dict_has(d, replace(financial_terms[SetMin(passing_terms(key))], " ", "_")) THEN d
    ELSE fuzzy_write(d, value, passing_terms(key))

\* data_structurer.py 104-118
line_write(d, key, value) ==
    IF value = <<>> THEN d
    ELSE IF list_contains(financial_terms, key) THEN dict_set(d, replace(key, " ", "_"), value)
    ELSE fuzzy_write(d, value, passing_terms(key))

line_parts(d, parts) == line_write(d, lower(strip(parts[1])), strip(parts[2]))

\* data_structurer.py 98-118: one separator tried on one line
line_separator(d, line, separator) ==
    IF contains(line, separator) THEN line_parts(d, split1(line, separator)) ELSE d

\* data_structurer.py 97-118: for separator in [':', '-', '=']
line_terms(d, line) ==
    line_separator(line_separator(line_separator(d, line, ":"), line, "-"), line, "=")

lines_of(s) == split(s, "\n")

\* what dateparser may answer on the DATE entities of the entity stage
EntityLibs(es) ==
    {[du |-> FALSE, dp |-> f] :
        f \in [{strip(es[k].text) : k \in {j \in 1..Len(es) :
                   es[j].label_ = "DATE" /\ DateLike(strip(es[j].text))}} -> DateOrNone]}

\* data_structurer.py 44-52
PatternStage ==
    /\ pc = "pattern"
    /\ terms' = apply_patterns(<<>>, text, 1)
    /\ pc' = "entity"
    /\ UNCHANGED api_vars
    /\ UNCHANGED <<text, ents, master_df, names, normalized_terms, results, libs,
                   call, ret, i>>

\* data_structurer.py 55-92
EntityStage ==
    /\ pc = "entity"
    /\ \E lib \in EntityLibs(ents) : terms' = entity_terms(terms, text, ents, lib)
    /\ pc' = "lines"
    /\ i' = 1
    /\ UNCHANGED api_vars
    /\ UNCHANGED <<text, ents, master_df, names, normalized_terms, results, libs,
                   call, ret>>

\* data_structurer.py 95-118: one line of the text
LineStep ==
    /\ pc = "lines"
    /\ i <= Len(lines_of(text))
    /\ terms' = line_terms(terms, lines_of(text)[i])
    /\ i' = i + 1
    /\ UNCHANGED api_vars
    /\ UNCHANGED <<text, ents, master_df, names, normalized_terms, results, libs,
                   call, ret, pc>>

\* data_structurer.py 121
StructureReturn ==
    /\ pc = "lines"
    /\ i > Len(lines_of(text))
    /\ pc' = "structured"
    /\ UNCHANGED api_vars
    /\ UNCHANGED <<text, ents, terms, master_df, names, normalized_terms, results, libs,
                   call, ret, i>>

(***************************************************************************)
(* validate_termsheet (api.py 80-90): structure_data, then normalize_terms *)
(* on its result, then validate_terms on the normalized mapping.           *)
(***************************************************************************)
\* api.py 86
CallNormalize ==
    /\ pc = "structured"
    /\ pc' = "normalize"
    /\ i' = 1
    /\ names' = <<>>
    /\ normalized_terms' = <<>>
    /\ UNCHANGED api_vars
    /\ UNCHANGED <<text, ents, terms, master_df, results, libs, call, ret>>

\* api.py 90
CallValidate ==
    /\ pc = "normalized"
    /\ pc' = "validate"
    /\ i' = 1
    /\ results' = <<>>
    /\ libs' = <<>>
    /\ UNCHANGED api_vars
    /\ UNCHANGED <<text, ents, terms, master_df, names, normalized_terms, call, ret>>

(***************************************************************************)
(* Inputs of the pipeline: a text of at most MaxLines lines, at most       *)
(* MaxEnts entities recognised in it, and a master sheet.                  *)
(***************************************************************************)
MaxLines == 2

MaxEnts == 1

MaxMoneyEnts == 2

s_Interest_Rate_line == <<"I", "n", "t", "e", "r", "e", "s", "t", " ", "R", "a", "t", "e", ":", " ", "5", ".", "5", "%">>

s_Maturity_Date_line == <<"M", "a", "t", "u", "r", "i", "t", "y", " ", "D", "a", "t", "e", ":", " ", "2", "0", "3", "0", "-", "0", "1", "-", "0", "1">>

s_Principal_line == <<"P", "r", "i", "n", "c", "i", "p", "a", "l", ":", " ", "$", "1", ",", "0", "0", "0">>

s_Fee_line == <<"F", "e", "e", " ", "=", " ", "2", "%">>

s_Due_line == <<"D", "u", "e", " ", "2", "0", "3", "1", "-", "0", "5", "-", "0", "5">>

s_5_5 == <<"5", ".", "5">>

s_4_0_to_6_0 == <<"4", ".", "0", "-", "6", ".", "0">>

s_01_01 == <<"0", "1", "-", "0", "1">>

s_Interest_Rate_line_2 == <<"i", "n", "t", "e", "r", "e", "s", "t", " ", "r", "a", "t", "e", " ", "-", " ", "7", "%">>

\* keys with no direct match: 'payment in total' scores 65 at best (against
\* 'prepayment penalty'), 'amount due' 64 (against 'payment date'), and
\* 'payment' passes for 'payment date' (74) before 'repayment' (88)
s_Payment_in_total_line == <<"P", "a", "y", "m", "e", "n", "t", " ", "i", "n", " ", "t", "o", "t", "a", "l", ":", " ", "7">>

s_Amount_due_line == <<"A", "m", "o", "u", "n", "t", " ", "d", "u", "e", ":", " ", "$", "1", ",", "0", "0", "0">>

s_Payment_line == <<"P", "a", "y", "m", "e", "n", "t", ":", " ", "7">>

TextLines ==
    {s_Interest_Rate_line, s_Maturity_Date_line, s_Principal_line, s_Fee_line, s_Due_line,
     s_Interest_Rate_line_2}

\* lines whose key reaches the fuzzy loop of the line stage
FuzzyLines == {s_Payment_in_total_line, s_Amount_due_line, s_Payment_line}

\* lines holding an amount, with and without a keyword in front of it
AmountLines == {s_Fee_line, s_Principal_line, s_Amount_due_line}

\* '\n'.join(ls)
RECURSIVE join_lines(_)
join_lines(ls) ==
    IF Len(ls) = 0 THEN <<>>
    ELSE IF Len(ls) = 1 THEN ls[1]
    ELSE ls[1] \o <<"\n">> \o join_lines(Tail(ls))

LinesOf(L) ==
    UNION {{l \in [1..m -> L] : \A a, b \in 1..m : a # b => l[a] # l[b]} :
           m \in 1..MaxLines}

Texts ==
    {join_lines(ls) : ls \in LinesOf(TextLines) \cup LinesOf(AmountLines)
                               \cup {<<l>> : l \in FuzzyLines}}

\* the value of a line starts at its first digit or currency sign
ValueStarts(s) ==
    {k \in 1..Len(s) :
        /\ IsDigit(s[k]) \/ s[k] = "$"
        /\ k > 1
        /\ s[k - 1] = " "}

ValueEnd(s, k) == SetMin({j \in k..Len(s) : j = Len(s) \/ s[j + 1] = "\n"})

EntityLabels == {"DATE", "PERCENT", "ORG", "MONEY"}

Entities(s) ==
    {[label_ |-> l, text |-> SubSeq(s, k, ValueEnd(s, k)), start_char |-> k - 1] :
        l \in EntityLabels, k \in ValueStarts(s)}

EntsOf(E, n) ==
    UNION {{es \in [1..m -> E] :
                \A a, b \in 1..m : a < b => es[a].start_char < es[b].start_char} :
           m \in 0..n}

\* doc.ents: at most MaxEnts entities of any label, or up to MaxMoneyEnts amounts
Ents(s) ==
    EntsOf(Entities(s), MaxEnts)
        \cup EntsOf({e \in Entities(s) : e.label_ = "MONEY"}, MaxMoneyEnts)

ScenarioText == join_lines(<<s_Interest_Rate_line, s_Maturity_Date_line>>)

ScenarioRules ==
    <<[Term |-> s_Interest_Rate, Expected |-> StrCell(s_5_5),
       Range |-> StrCell(s_4_0_to_6_0)],
      [Term |-> s_Maturity_Date, Expected |-> NaN, Range |-> StrCell(s_GE_2025_01_01)]>>

MasterSheets ==
    {ScenarioRules,
     <<ScenarioRules[1]>>,
     <<[Term |-> s_Principal, Expected |-> NaN, Range |-> NaN], ScenarioRules[2]>>}

InitPipeline ==
    /\ text \in Texts
    /\ ents \in Ents(text)
    /\ terms = <<>>
    /\ master_df \in MasterSheets
    /\ names = <<>>
    /\ normalized_terms = <<>>
    /\ results = <<>>
    /\ libs = <<>>
    /\ call = NoCall
    /\ ret = NoRet
    /\ pc = "pattern"
    /\ i = 1
    /\ ApiIdle

NextPipeline ==
    \/ PatternStage
    \/ EntityStage
    \/ LineStep
    \/ StructureReturn
    \/ CallNormalize
    \/ NormalizeStep
    \/ NormalizeReturn
    \/ CallValidate
    \/ ValidateStep
    \/ ValidateLoopEnd
    \/ MissingStep
    \/ Return

SpecPipeline == InitPipeline /\ [][NextPipeline]_vars

RecordsFor(term) == {k \in 1..Len(results) : results[k].Term = term}

(***************************************************************************)
(* C4: end to end, the text 'Interest Rate: 5.5%\nMaturity Date:           *)
(* 2030-01-01' under the rules {Interest Rate, expected 5.5, range         *)
(* 4.0-6.0} and {Maturity Date, range >=2025-01-01} gives exactly two      *)
(* records, both Valid, the extracted values being 5.5% (or 5.5) for       *)
(* Interest Rate and 2030-01-01 for Maturity Date.                         *)
(***************************************************************************)
C4_Scenario ==
    /\ pc = "done"
    /\ text = ScenarioText
    /\ ents = <<>>
    /\ master_df = ScenarioRules

C4_EndToEnd ==
    C4_Scenario =>
        /\ Len(results) = 2
        /\ \A k \in 1..Len(results) : results[k].Status = OK_MARK
        /\ \E k \in RecordsFor(s_Interest_Rate) :
               results[k].ExtractedValue \in {s_5_5_PCT, s_5_5}
        /\ \E k \in RecordsFor(s_Maturity_Date) :
               results[k].ExtractedValue = s_2030_01_01

\* what the pipeline returns on the scenario: the Maturity Date record holds
\* '01-01', the remainder after the first hyphen of its line
C4_Witness ==
    /\ C4_Scenario
    /\ Len(results) = 2
    /\ terms = <<[key |-> s_interest_rate_key, value |-> s_5_5_PCT],
                 [key |-> s_maturity_date_key, value |-> s_01_01]>>
    /\ results[1].Term = s_Interest_Rate /\ results[1].ExtractedValue = s_5_5_PCT
    /\ results[1].Status = OK_MARK
    /\ results[2].Term = s_Maturity_Date /\ results[2].ExtractedValue = s_01_01

(***************************************************************************)
(* The writes of the line stage, in the order it makes them: for each line *)
(* and each separator, the entry it stores (read off an empty mapping).    *)
(***************************************************************************)
RECURSIVE LineWritesFrom(_, _)
LineWritesFrom(ls, k) ==
    IF k > Len(ls) THEN <<>>
    ELSE line_separator(<<>>, ls[k], ":") \o line_separator(<<>>, ls[k], "-")
         \o line_separator(<<>>, ls[k], "=") \o LineWritesFrom(ls, k + 1)

LineWrites(s) == LineWritesFrom(lines_of(s), 1)

LastWrite(ws, label) == ws[SetMax({k \in 1..Len(ws) : ws[k].key = label})].value

LineStageWins(d, ws) ==
    \A k \in 1..Len(ws) :
        dict_has(d, ws[k].key) /\ dict_get(d, ws[k].key) = LastWrite(ws, ws[k].key)

\* the values of the mapping before the line stage differ from the final ones
Overwritten(d, before, ws) ==
    \E k \in 1..Len(ws) :
        /\ dict_has(before, ws[k].key)
        /\ dict_get(before, ws[k].key) # dict_get(d, ws[k].key)

\* C11: structure_data runs pattern -> entity fallback -> line heuristic, and
\* every label the line stage matches ends with the value of the line stage's
\* last write to it, even when an earlier stage had set that label.
C11_LineStageOverwrites ==
    /\ pc = "entity" => terms = apply_patterns(<<>>, text, 1)
    /\ pc = "structured" => LineStageWins(terms, LineWrites(text))

\* a label set by the pattern stage whose final value is the line stage's
C11_Witness ==
    /\ pc = "structured"
    /\ LineStageWins(terms, LineWrites(text))
    /\ Overwritten(terms, apply_patterns(<<>>, text, 1), LineWrites(text))

(***************************************************************************)
(* The pattern and entity stages.                                          *)
(***************************************************************************)
\* d holds, for each pattern with a match in s, the trimmed group of its first match
FirstMatches(d, s) ==
    /\ \A k \in 1..Len(patterns) :
           has_match(patterns[k].pattern, s) =>
               /\ dict_has(d, patterns[k].key)
               /\ dict_get(d, patterns[k].key) = strip(group1(patterns[k].pattern, s))
    /\ \A j \in 1..Len(d) :
           \E k \in 1..Len(patterns) :
               patterns[k].key = d[j].key /\ has_match(patterns[k].pattern, s)

\* every entry of d is in e with the same value
Preserved(d, e) ==
    \A k \in 1..Len(d) : dict_has(e, d[k].key) /\ dict_get(e, d[k].key) = d[k].value

\* C12: within the pattern and entity stages a label is written at most once:
\* the pattern stage records the trimmed group of the first match only, and the
\* entity stage leaves every label the pattern stage set at its value.
C12_WrittenOnce ==
    /\ [](pc = "entity" => FirstMatches(terms, text))
    /\ [][pc = "entity" => Preserved(terms, terms')]_vars

\* after the entity stage: a PERCENT entity qualifies for interest_rate, the
\* pattern stage had set it to another value, and that value is still there;
\* and the pattern had a second, later match
C12_Witness ==
    /\ pc = "lines" /\ i = 1
    /\ percent_ents(text, ents) # {}
    /\ dict_has(terms, s_interest_rate_key)
    /\ dict_get(terms, s_interest_rate_key) # first_ent(ents, percent_ents(text, ents)).text
    /\ dict_get(terms, s_interest_rate_key) = s_5_5
    /\ Cardinality(MatchStarts(pattern_interest_rate, text)) = 2

(***************************************************************************)
(* Malformed allowed ranges in the numeric domain: an operator whose bound *)
(* is no number, or an interval that does not split into exactly two       *)
(* numbers.                                                                *)
(***************************************************************************)
RangeHasOperator ==
    startswith(str(call.allowed_range), "GE") \/ startswith(str(call.allowed_range), "LE")

MalformedBound ==
    RangeHasOperator /\ ~float_ok(strip_numeric(Tail(str(call.allowed_range))))

MalformedInterval ==
    /\ ~RangeHasOperator
    /\ contains(str(call.allowed_range), "ENDASH") \/ contains(str(call.allowed_range), "-")
    /\ \/ Len(RangeParts) # 2
       \/ \E k \in 1..Len(RangeParts) : ~float_ok(strip_numeric(RangeParts[k]))

C13_Case ==
    /\ NumericCall
    /\ pd_notna(call.allowed_range)
    /\ MalformedBound \/ MalformedInterval
    /\ NoMatchingExpected

\* C13: a term whose allowed range cannot be parsed under its syntax and whose
\* value does not equal its expected value is Invalid, never Valid, with a note
\* describing the fault.
C13_MalformedRangeInvalid ==
    C13_Case =>
        /\ ret.k = "ret"
        /\ ~ret.is_valid
        /\ ret.notes # ""

\* range '4.5-6.0-7.0' (three parts), no expected value, extracted '6.0':
\* the range gives no verdict and the call returns Valid
C13_Witness ==
    /\ C13_Case
    /\ call.allowed_range = StrCell(s_4_5_to_6_0_to_7_0)
    /\ pd_isna(call.expected_value)
    /\ call.extracted_value = s_6_0
    /\ ret = Ret(TRUE, "No specific numeric validation rules")

(***************************************************************************)
(* The text domain.                                                        *)
(***************************************************************************)
TextCall ==
    /\ pc = "returned"
    /\ pd_notna(call.expected_value) \/ pd_notna(call.allowed_range)
    /\ _determine_value_type(strip(call.extracted_value), call.lib) = "text"

ExpectedText == lower(strip(str(call.expected_value)))

ExtractedText == lower(strip(call.extracted_value))

MatchesExpectedText ==
    /\ pd_notna(call.expected_value)
    /\ \/ ExtractedText = ExpectedText
       \/ ratio(ExtractedText, ExpectedText) >= TEXT_THRESHOLD

RangeIsEnumeration ==
    pd_notna(call.allowed_range) /\ contains(str(call.allowed_range), "|")

EnumerationValues == split(str(call.allowed_range), "|")

InEnumeration ==
    \E k \in 1..Len(EnumerationValues) : lower(strip(EnumerationValues[k])) = ExtractedText

\* C14: in the text domain the checks cascade: equal to the expected value
\* ignoring case, or similar to it at 90 or more, is Valid; else, under a
\* '|'-delimited enumeration, the value is Valid iff it is a member ignoring
\* case; so a value that differs from the expected value but is in the
\* enumeration is Valid.
C14_TextCascade ==
    TextCall =>
        /\ ret.k = "ret"
        /\ MatchesExpectedText => ret.is_valid
        /\ (~MatchesExpectedText /\ RangeIsEnumeration) => (ret.is_valid <=> InEnumeration)

\* extracted 'abc', expected 'xyz', allowed 'abc | def': the expected value
\* decides alone and the call returns Invalid
C14_Witness ==
    /\ TextCall
    /\ call.extracted_value = s_abc
    /\ call.expected_value = StrCell(s_xyz)
    /\ call.allowed_range = StrCell(s_abc_or_def)
    /\ InEnumeration
    /\ ret = Ret(FALSE, "Text doesn't match expected value")

(***************************************************************************)
(* The date domain.                                                        *)
(***************************************************************************)
ExtractedDate == dateparser_parse(strip(call.extracted_value), call.lib)

DateCall ==
    /\ pc = "returned"
    /\ _determine_value_type(strip(call.extracted_value), call.lib) = "date"
    /\ ExtractedDate # NONE

NoMatchingExpectedDate ==
    \/ pd_isna(call.expected_value)
    \/ dateparser_parse(str(call.expected_value), call.lib) # ExtractedDate

\* the date X of a range '>=X' or '<=X'
BoundDate == dateparser_parse(Tail(str(call.allowed_range)), call.lib)

\* where a range string reads as 'A-B' or 'A(en-dash)B' with A and B two ISO dates
IntervalSplits(s) ==
    {k \in 2..(Len(s) - 1) :
        /\ s[k] \in {"-", "ENDASH"}
        /\ IsIsoDate(strip(SubSeq(s, 1, k - 1)))
        /\ IsIsoDate(strip(SubSeq(s, k + 1, Len(s))))}

DateWithin(s, k, d) ==
    /\ IsoDateVal(strip(SubSeq(s, 1, k - 1))) <= d
    /\ d <= IsoDateVal(strip(SubSeq(s, k + 1, Len(s))))

C15_Case == DateCall /\ pd_notna(call.allowed_range) /\ NoMatchingExpectedDate

\* C15: in the date domain, the expected date absent or not matched: '>=X' is
\* Valid iff extracted >= X, '<=X' iff extracted <= X, and an interval of two
\* dates A and B, delimited by a hyphen or an en-dash, iff A <= extracted <= B.
C15_DateRange ==
    C15_Case =>
        /\ (startswith(str(call.allowed_range), "GE") /\ BoundDate # NONE)
               => (ret.k = "ret" /\ (ret.is_valid <=> ExtractedDate >= BoundDate))
        /\ (startswith(str(call.allowed_range), "LE") /\ BoundDate # NONE)
               => (ret.k = "ret" /\ (ret.is_valid <=> ExtractedDate <= BoundDate))
        /\ \A k \in IntervalSplits(str(call.allowed_range)) :
               /\ ret.k = "ret"
               /\ ret.is_valid <=> DateWithin(str(call.allowed_range), k, ExtractedDate)

\* extracted '2030-01-01', range '2025-01-01-2029-12-31' with a hyphen, no
\* expected value: the range splits into six parts, gives no verdict, and the
\* call returns Valid although the date is after the interval
C15_Witness ==
    /\ C15_Case
    /\ call.extracted_value = s_2030_01_01
    /\ call.allowed_range = StrCell(s_2025_to_2029_HYPHEN)
    /\ pd_isna(call.expected_value)
    /\ IntervalSplits(str(call.allowed_range)) = {11}
    /\ ~DateWithin(str(call.allowed_range), 11, ExtractedDate)
    /\ ret = Ret(TRUE, "No specific date validation rules")

\* the part of that statement the validator does meet: operators, and
\* intervals delimited by an en-dash
EnDashDateRange ==
    C15_Case =>
        /\ (startswith(str(call.allowed_range), "GE") /\ BoundDate # NONE)
               => (ret.k = "ret" /\ (ret.is_valid <=> ExtractedDate >= BoundDate))
        /\ (startswith(str(call.allowed_range), "LE") /\ BoundDate # NONE)
               => (ret.k = "ret" /\ (ret.is_valid <=> ExtractedDate <= BoundDate))
        /\ \A k \in IntervalSplits(str(call.allowed_range)) :
               str(call.allowed_range)[k] = "ENDASH" =>
                   /\ ret.k = "ret"
                   /\ ret.is_valid <=> DateWithin(str(call.allowed_range), k, ExtractedDate)

(***************************************************************************)
(* Which validator answered a call, read off the note it returned.         *)
(***************************************************************************)
DateNotes ==
    {"Date matches expected value", "Date is after minimum", "Date is before minimum",
     "Date is before maximum", "Date is after maximum", "Date is within range",
     "Date is outside range", "Date doesn't match expected",
     "No specific date validation rules", "Date validation error"}

NumberNotes ==
    {"Number matches expected value", "Number is greater than or equal to minimum",
     "Number is below minimum", "Number is less than or equal to maximum",
     "Number is above maximum", "Number is within range", "Number is outside range",
     "Number doesn't match expected", "No specific numeric validation rules",
     "Numeric validation error"}

TextNotes ==
    {"Text matches expected value", "Text matches expected value with similarity",
     "Text doesn't match expected value", "Text is in list of allowed values",
     "Text is not in list of allowed values", "No specific text validation rules"}

RuledCall ==
    /\ pc = "returned"
    /\ pd_notna(call.expected_value) \/ pd_notna(call.allowed_range)

ParsesAsDate == date_parse_ok(strip(call.extracted_value), call.lib)

ParsesAsNumber == float_ok(strip_symbols(strip(call.extracted_value)))

\* C16: for a term with a rule the domain is chosen by a fixed cascade: Date
\* if the extracted string parses as a date, otherwise Number if it parses as
\* a number once currency and percent punctuation is stripped, otherwise Text;
\* exactly one validator runs, and a value that parses as a date is never
\* validated as a number or as text.
C16_DomainCascade ==
    RuledCall =>
        /\ ret.k = "ret"
        /\ ParsesAsDate => ret.notes \in DateNotes
        /\ (~ParsesAsDate /\ ParsesAsNumber) => ret.notes \in NumberNotes
        /\ (~ParsesAsDate /\ ~ParsesAsNumber) => ret.notes \in TextNotes
        /\ Cardinality({N \in {DateNotes, NumberNotes, TextNotes} : ret.notes \in N}) = 1

\* '6.1' under a rule, read as a date by dateutil and readable as a number:
\* the date validator answers
C16_Witness ==
    /\ RuledCall
    /\ call.extracted_value = s_6_1
    /\ ParsesAsDate /\ ParsesAsNumber
    /\ ret.notes \in DateNotes

(***************************************************************************)
(* The order of the records validate_terms returns.                        *)
(***************************************************************************)
\* the first row of the rule table that names a term
RowOf(term) == SetMin({k \in 1..Len(master_df) : master_df[k].Term = term})

TermRecordsFirst(rs, nt) ==
    /\ Len(rs) >= Len(nt)
    /\ \A k \in 1..Len(nt) : rs[k].Term = nt[k].key /\ ~IsMissingRecord(rs[k])

MissingRecordsLast(rs, n) ==
    /\ \A k \in (n + 1)..Len(rs) : IsMissingRecord(rs[k])
    /\ \A a, b \in (n + 1)..Len(rs) : a < b => RowOf(rs[a].Term) < RowOf(rs[b].Term)

\* C17: the output is ordered: one record per normalized term in the mapping's
\* insertion order, then the Missing records in rule-table order; no Missing
\* record precedes a matched or Unknown record.
C17_OutputOrder ==
    pc = "done" =>
        /\ TermRecordsFirst(results, normalized_terms)
        /\ MissingRecordsLast(results, Len(normalized_terms))

\* two extracted terms, one of them without a rule, then two Missing records
\* in the order of the rule table
C17_Witness ==
    /\ pc = "done"
    /\ Len(master_df) = 2 /\ Len(normalized_terms) = 1 /\ Len(results) = 3
    /\ master_df[1].Term = s_Principal /\ master_df[2].Term = s_Maturity_Date
    /\ IsUnknownRecord(results[1]) /\ results[1].Term = s_Fee
    /\ IsMissingRecord(results[2]) /\ results[2].Term = s_Principal
    /\ IsMissingRecord(results[3]) /\ results[3].Term = s_Maturity_Date

(***************************************************************************)
(* Keys that normalize_terms could match neither exactly nor fuzzily.      *)
(***************************************************************************)
FellBack(dk) == ~HasExact(dk) /\ MaxScore(dk) <= FUZZY_THRESHOLD

IsNotFoundRecord(r) ==
    /\ r.Status = UNKNOWN_MARK
    /\ r.ExpectedValue = StrCell(s_NA)
    /\ r.AllowedRange = StrCell(s_NA)
    /\ r.Notes = "Term not found in master sheet"

SurfacesAsUnknown(name, dk) ==
    /\ name = title(dk)
    /\ ~IsVocabularyTerm(name)
    /\ Cardinality(RecordsFor(name)) = 1
    /\ \A k \in RecordsFor(name) : IsNotFoundRecord(results[k])

\* C18: a key that normalize_terms stores under the synthesized title-cased
\* name, neither path having matched, has a name equal to no master term, and
\* validate_terms records it Unknown ('Term not found in master sheet') with
\* expected value and allowed range 'N/A', nothing compared.
C18_FallbackIsUnknown ==
    pc = "done" =>
        \A k \in 1..Len(names) : FellBack(KeyAt(k)) => SurfacesAsUnknown(names[k], KeyAt(k))

\* the line 'Fee = 2%' under the rules for Interest Rate and Maturity Date:
\* key 'fee' is stored as 'Fee' and reported Unknown
C18_Witness ==
    /\ pc = "done"
    /\ master_df = ScenarioRules
    /\ \E k \in 1..Len(names) :
           /\ terms[k].key = s_fee
           /\ FellBack(KeyAt(k))
           /\ names[k] = s_Fee
           /\ \E j \in RecordsFor(s_Fee) : IsNotFoundRecord(results[j])

(***************************************************************************)
(* Rule tables that name a term more than once.                            *)
(***************************************************************************)
AppliesFirstRow(r) ==
    /\ r.ExpectedValue = master_df[RowOf(r.Term)].Expected
    /\ r.AllowedRange = master_df[RowOf(r.Term)].Range

\* C19: when the rule table names a term more than once, validation applies
\* the expected value and allowed range of the first occurrence.
C19_FirstOccurrence ==
    pc = "done" =>
        \A k \in 1..Len(results) : HasRule(results[k].Term) => AppliesFirstRow(results[k])

\* rows [Principal expected 6.0] and [Principal without rules], 'abc'
\* extracted: the record carries the second row's empty rule and is Valid
C19_Witness ==
    /\ pc = "done"
    /\ Len(master_df) = 2
    /\ master_df[1] = [Term |-> s_Principal, Expected |-> StrCell(s_6_0), Range |-> NaN]
    /\ master_df[2] = [Term |-> s_Principal, Expected |-> NaN, Range |-> NaN]
    /\ normalized_terms = <<[key |-> s_Principal, value |-> s_abc]>>
    /\ Len(results) = 1
    /\ results[1].ExpectedValue = NaN
    /\ results[1].Status = OK_MARK
    /\ results[1].Notes = "No validation rules specified"

(***************************************************************************)
(* The numeric domain with an expected number and a well-formed range.     *)
(***************************************************************************)
RangeText == str(call.allowed_range)

WellFormedRange ==
    /\ pd_notna(call.allowed_range)
    /\ IF RangeHasOperator THEN float_ok(strip_numeric(Tail(RangeText)))
       ELSE RangeIsInterval

MatchesExpectedNumber ==
    AbsDiff(ExtractedUnits, ExpectedUnits) <= ATOL_UNITS + (ExpectedUnits \div RTOL_INV)

SatisfiesRange ==
    IF startswith(RangeText, "GE")
    THEN AtMost(Parsed(Tail(RangeText)), Parsed(strip(call.extracted_value)))
    ELSE IF startswith(RangeText, "LE")
    THEN AtMost(Parsed(strip(call.extracted_value)), Parsed(Tail(RangeText)))
    ELSE /\ AtMost(Parsed(RangeParts[1]), Parsed(strip(call.extracted_value)))
         /\ AtMost(Parsed(strip(call.extracted_value)), Parsed(RangeParts[2]))

RangeFailureNotes ==
    {"Number is below minimum", "Number is above maximum", "Number is outside range"}

C20_Case == NumericCall /\ ExpectedIsNumber /\ WellFormedRange

\* C20: in the numeric domain with an expected value and a well-formed range
\* the verdict is Valid iff the number equals the expected value within
\* tolerance or satisfies the range; outside the range it is Invalid with the
\* range's note, and "doesn't match expected" appears only when no range
\* produced a verdict.
C20_ExpectedOrRange ==
    C20_Case =>
        /\ ret.k = "ret"
        /\ ret.is_valid <=> (MatchesExpectedNumber \/ SatisfiesRange)
        /\ ~ret.is_valid => ret.notes \in RangeFailureNotes
        /\ ret.notes # "Number doesn't match expected"

\* expected 0.0001, range '4.5(en-dash)6.0': '4.5' differs from the expected
\* value and is Valid by the range
C20_Witness ==
    /\ C20_Case
    /\ call.expected_value = StrCell(s_0_0001)
    /\ call.allowed_range = StrCell(s_4_5_ENDASH_6_0)
    /\ call.extracted_value = s_4_5
    /\ ~MatchesExpectedNumber
    /\ ret = Ret(TRUE, "Number is within range")

(***************************************************************************)
(* Parse failures inside the date and numeric validators.  A failure is    *)
(* one that occurs: the expected value is parsed whenever it is present,   *)
(* the range only when the expected value did not already decide.          *)
(***************************************************************************)
DateDomain ==
    /\ RuledCall
    /\ _determine_value_type(strip(call.extracted_value), call.lib) = "date"

NumberDomain ==
    /\ RuledCall
    /\ _determine_value_type(strip(call.extracted_value), call.lib) = "number"

ExpectedDate == dateparser_parse(str(call.expected_value), call.lib)

DateBoundFails ==
    /\ pd_notna(call.allowed_range)
    /\ pd_isna(call.expected_value) \/ ExpectedDate # ExtractedDate
    /\ \/ RangeHasOperator /\ BoundDate = NONE
       \/ /\ ~RangeHasOperator
          /\ Len(RangeParts) = 2
          /\ \E k \in 1..2 : dateparser_parse(strip(RangeParts[k]), call.lib) = NONE

DateParseFails ==
    \/ ExtractedDate = NONE
    \/ pd_notna(call.expected_value) /\ ExpectedDate = NONE
    \/ DateBoundFails

NumberParseFails ==
    \/ ~float_ok(strip_numeric(strip(call.extracted_value)))
    \/ pd_notna(call.expected_value) /\ ~float_ok(expected_numeral(call.expected_value))

\* C21: once the date or numeric domain is chosen, a parse failure of the
\* extracted value, the expected value or a range bound gives Invalid, never
\* Valid, and never leaves the validator; so when neither the extracted nor
\* the expected value parses to a date the record is Invalid.
C21_ParseFailureInvalid ==
    /\ (DateDomain /\ DateParseFails) => (ret.k = "ret" /\ ~ret.is_valid)
    /\ (NumberDomain /\ NumberParseFails) => (ret.k = "ret" /\ ~ret.is_valid)

\* extracted '2030-01-01', expected 'abc' (no date), range '>=2025-01-01':
\* the unparsed expected value is passed over and the range gives Valid
C21_Witness ==
    /\ DateDomain
    /\ call.extracted_value = s_2030_01_01
    /\ call.expected_value = StrCell(s_abc)
    /\ call.allowed_range = StrCell(s_GE_2025_01_01)
    /\ ExpectedDate = NONE
    /\ ret = Ret(TRUE, "Date is after minimum")

\* neither the extracted nor the expected value parses to a date: None equals
\* None and the call returns Valid
DatesBothUnparsedValid ==
    /\ DateDomain
    /\ ExtractedDate = NONE
    /\ pd_notna(call.expected_value)
    /\ ExpectedDate = NONE
    /\ ret = Ret(TRUE, "Date matches expected value")

(***************************************************************************)
(* Lines of the form 'K: V' with K in the fixed vocabulary.                *)
(***************************************************************************)
ColonKey(line) == lower(strip(split1(line, ":")[1]))

ColonValue(line) == strip(split1(line, ":")[2])

IsTermLine(line) ==
    /\ contains(line, ":")
    /\ list_contains(financial_terms, ColonKey(line))
    /\ ColonValue(line) # <<>>

\* no other line of ls than the j-th writes the label
OnlyLineFor(ls, j, label) ==
    \A k \in 1..Len(ls) :
        k # j => \A w \in 1..Len(LineWritesFrom(<<ls[k]>>, 1)) :
                     LineWritesFrom(<<ls[k]>>, 1)[w].key # label

HoldsRemainder(d, line) ==
    /\ dict_has(d, replace(ColonKey(line), " ", "_"))
    /\ dict_get(d, replace(ColonKey(line), " ", "_")) = ColonValue(line)

\* C22: the line stage splits a line once, at the first separator, into key
\* and value: when the only line for a vocabulary term K is 'K: V' with V not
\* empty, structure_data returns the whole trimmed V under K's label, also
\* when V holds '-' or '=' ('Maturity Date: 2030-01-01' gives '2030-01-01').
C22_SplitOnce ==
    pc = "structured" =>
        \A j \in 1..Len(lines_of(text)) :
            (/\ IsTermLine(lines_of(text)[j])
             /\ OnlyLineFor(lines_of(text), j,
                            replace(ColonKey(lines_of(text)[j]), " ", "_")))
                => HoldsRemainder(terms, lines_of(text)[j])

\* the one-line text 'Maturity Date: 2030-01-01': maturity_date ends as '01-01'
C22_Witness ==
    /\ pc = "structured"
    /\ text = s_Maturity_Date_line
    /\ IsTermLine(text)
    /\ ColonValue(text) = s_2030_01_01
    /\ terms = <<[key |-> s_maturity_date_key, value |-> s_01_01]>>

(***************************************************************************)
(* The fuzzy loop of the line stage (data_structurer.py 114-118).          *)
(***************************************************************************)
Separators == {":", "-", "="}

CandidateKey(line, separator) == lower(strip(split1(line, separator)[1]))

CandidateValue(line, separator) == strip(split1(line, separator)[2])

\* the candidates of a line that reach the fuzzy loop
ReachesFuzzy(line, separator) ==
    /\ contains(line, separator)
    /\ CandidateValue(line, separator) # <<>>
    /\ ~list_contains(financial_terms, CandidateKey(line, separator))

BestSimilarity(key) ==
    SetMax({ratio(key, financial_terms[k]) : k \in 1..Len(financial_terms)})

Writes(line, separator) == line_separator(<<>>, line, separator) # <<>>

\* C23: a candidate key with no direct match is accepted by the fuzzy loop
\* iff its best similarity to a fixed term is at least 65: a best similarity
\* of exactly 65 produces a write, one of 64 produces none.
C23_AcceptedFrom65 ==
    pc = "structured" =>
        \A j \in 1..Len(lines_of(text)) : \A separator \in Separators :
            ReachesFuzzy(lines_of(text)[j], separator)
                => (Writes(lines_of(text)[j], separator)
                      <=> BestSimilarity(CandidateKey(lines_of(text)[j], separator))
                            >= LINE_THRESHOLD)

\* 'Payment in total: 7': the key's best similarity is exactly 65 and
\* structure_data returns nothing
C23_Witness ==
    /\ pc = "structured"
    /\ text = s_Payment_in_total_line
    /\ ReachesFuzzy(text, ":")
    /\ BestSimilarity(CandidateKey(text, ":")) = LINE_THRESHOLD
    /\ ~Writes(text, ":")
    /\ terms = <<>>

\* what the loop does: a write iff the best similarity is above 65
AcceptedAbove65 ==
    pc = "structured" =>
        \A j \in 1..Len(lines_of(text)) : \A separator \in Separators :
            ReachesFuzzy(lines_of(text)[j], separator)
                => (Writes(lines_of(text)[j], separator)
                      <=> BestSimilarity(CandidateKey(lines_of(text)[j], separator))
                            > LINE_THRESHOLD)

\* 'Amount due: $1,000': a best similarity of 64 and no write
BelowThresholdNoWrite ==
    /\ pc = "structured"
    /\ text = s_Amount_due_line
    /\ BestSimilarity(CandidateKey(text, ":")) = LINE_THRESHOLD - 1
    /\ ~Writes(text, ":")

s_payment_date_key == <<"p", "a", "y", "m", "e", "n", "t", "_", "d", "a", "t", "e">>

s_repayment == <<"r", "e", "p", "a", "y", "m", "e", "n", "t">>

Label(k) == replace(financial_terms[k], " ", "_")

WrittenLabel(line, separator) == line_separator(<<>>, line, separator)[1].key

BestScoring(key) ==
    {k \in 1..Len(financial_terms) : ratio(key, financial_terms[k]) = BestSimilarity(key)}

\* C24: in the fuzzy loop of the line stage, when several fixed terms pass the
\* threshold for a candidate key, the value is written under the label of the
\* term with the highest similarity, not under the first passing term in
\* list order.
C24_HighestSimilarity ==
    pc = "structured" =>
        \A j \in 1..Len(lines_of(text)) : \A separator \in Separators :
            (/\ ReachesFuzzy(lines_of(text)[j], separator)
             /\ Writes(lines_of(text)[j], separator))
                => \E k \in BestScoring(CandidateKey(lines_of(text)[j], separator)) :
                       WrittenLabel(lines_of(text)[j], separator) = Label(k)

\* 'Payment: 7': 'payment date' (74) passes before 'repayment' (88) is tried,
\* and structure_data returns {'payment_date': '7'}
C24_Witness ==
    /\ pc = "structured"
    /\ text = s_Payment_line
    /\ ReachesFuzzy(text, ":")
    /\ Cardinality(passing_terms(CandidateKey(text, ":"))) > 1
    /\ \E k \in BestScoring(CandidateKey(text, ":")) : financial_terms[k] = s_repayment
    /\ terms = <<[key |-> s_payment_date_key, value |-> <<"7">>]>>

\* what the loop does: the label is the first passing term's
FirstPassingTerm ==
    pc = "structured" =>
        \A j \in 1..Len(lines_of(text)) : \A separator \in Separators :
            (/\ ReachesFuzzy(lines_of(text)[j], separator)
             /\ Writes(lines_of(text)[j], separator))
                => WrittenLabel(lines_of(text)[j], separator)
                     = Label(SetMin(passing_terms(CandidateKey(lines_of(text)[j],
                                                               separator))))

(***************************************************************************)
(* The amount fallback of the entity stage (data_structurer.py 86-92).     *)
(***************************************************************************)
AfterEntityStage == pc = "lines" /\ i = 1

\* neither 'principal' nor 'loan_amount' came out of the patterns
NoAmountLabel ==
    /\ ~dict_has(apply_patterns(<<>>, text, 1), s_principal_key)
    /\ ~dict_has(apply_patterns(<<>>, text, 1), s_loan_amount_key)

Preceded(ent) == any_in(AmountKeywords, window(text, ent.start_char, AMOUNT_WINDOW))

PrecededAmounts == {k \in label_ents(ents, "MONEY") : Preceded(ents[k])}

\* C25: when the principal label is absent, the entity stage sets it to the
\* first MONEY entity, in entity order, that has 'principal' or 'amount' in
\* front of it: MONEY entities without the keyword are skipped and a later
\* one with the keyword is still taken.
C25_FirstPrecededAmount ==
    (AfterEntityStage /\ NoAmountLabel /\ PrecededAmounts # {})
        => /\ dict_has(terms, s_principal_key)
           /\ dict_get(terms, s_principal_key) = ents[SetMin(PrecededAmounts)].text

\* 'Fee = 2%%' then 'Amount due: $1,000' with both values MONEY entities: the
\* first has no keyword in front, the loop stops at it and the second is
\* never looked at
C25_Witness ==
    /\ AfterEntityStage
    /\ NoAmountLabel
    /\ text = join_lines(<<s_Fee_line, s_Amount_due_line>>)
    /\ Len(ents) = MaxMoneyEnts
    /\ label_ents(ents, "MONEY") = {1, 2}
    /\ PrecededAmounts = {2}
    /\ ~dict_has(terms, s_principal_key)

\* what the loop does: only the first MONEY entity is looked at
FirstAmountOnly ==
    (AfterEntityStage /\ NoAmountLabel)
        => (dict_has(terms, s_principal_key)
              <=> /\ label_ents(ents, "MONEY") # {}
                  /\ SetMin(label_ents(ents, "MONEY")) \in PrecededAmounts)

(***************************************************************************)
(* The mapping normalize_terms returns (data_structurer.py 148-185).       *)
(***************************************************************************)
\* the extracted keys stored under a name, by position
StoredUnder(name) == {k \in 1..Len(names) : names[k] = name}

OneValuePerName ==
    \A a, b \in 1..Len(normalized_terms) :
        a # b => normalized_terms[a].key # normalized_terms[b].key

FirstInsertionOrder ==
    /\ {normalized_terms[a].key : a \in 1..Len(normalized_terms)}
         = {names[k] : k \in 1..Len(names)}
    /\ \A a, b \in 1..Len(normalized_terms) :
           a < b => SetMin(StoredUnder(normalized_terms[a].key))
                      < SetMin(StoredUnder(normalized_terms[b].key))

LaterValueKept ==
    \A a \in 1..Len(normalized_terms) :
        normalized_terms[a].value
            = terms[SetMax(StoredUnder(normalized_terms[a].key))].value

\* C26: normalize_terms returns one value per canonical name, the names in
\* order of first insertion along the extraction order; when two extracted
\* keys normalize to the same name the later key's value is kept and the
\* earlier one dropped, so the result can be shorter than the extracted mapping.
C26_OneValuePerName ==
    pc = "normalized" =>
        /\ Len(names) = Len(terms)
        /\ \A k \in 1..Len(terms) : names[k] = normalized_name(KeyAt(k), master_df)
        /\ OneValuePerName
        /\ FirstInsertionOrder
        /\ LaterValueKept
        /\ Len(normalized_terms) <= Len(terms)

\* 'interest_rate' and 'Interest Rate' with different values both normalize to
\* one name: the result has one entry, holding the second key's value
C26_Witness ==
    /\ pc = "normalized"
    /\ Len(terms) = 2
    /\ terms[1].key # terms[2].key
    /\ terms[1].value # terms[2].value
    /\ names[1] = names[2]
    /\ normalized_terms = <<[key |-> names[1], value |-> terms[2].value]>>

(***************************************************************************)
(* Signs in the numeric validator (validator.py 161-204).                  *)
(***************************************************************************)
HasMinus(s) == \E k \in 1..Len(s) : s[k] = "-"

WithoutMinus(s) == SelectSeq(s, LAMBDA c : c # "-")

\* the strings _validate_number hands to float() for a range
BoundNumerals(range_str) ==
    IF startswith(range_str, "GE") \/ startswith(range_str, "LE")
    THEN {strip_numeric(Tail(range_str))}
    ELSE IF Len(split(range_str, range_delimiter(range_str))) = 2
    THEN {strip_numeric(split(range_str, range_delimiter(range_str))[k]) : k \in 1..2}
    ELSE {}

\* the strings the call hands to float()
Numerals ==
    {strip_numeric(strip(call.extracted_value))}
        \cup (IF call.expected_value.t = "str"
              THEN {strip_numeric(call.expected_value.v)} ELSE {})
        \cup (IF pd_notna(call.allowed_range)
              THEN BoundNumerals(str(call.allowed_range)) ELSE {})

NoNegativeParsed == \A s \in Numerals : float_ok(s) => ~float(s).neg

\* the verdict of the same call on the extracted value without its '-'
UnsignedVerdict ==
    _validate_value(WithoutMinus(call.extracted_value), call.expected_value,
                    call.allowed_range, call.lib)

\* C28: in the numeric domain the extracted value, a string expected value
\* and the range bounds are parsed with everything but digits and '.'
\* removed, so a minus sign is discarded: '-x' gets the verdict of 'x' under
\* every rule and no number parsed from a string is negative.
C28_MinusDiscarded ==
    NumberDomain =>
        /\ NoNegativeParsed
        /\ HasMinus(call.extracted_value) => ret = UnsignedVerdict

\* '-6.0' against the expected '6.0' is Valid as a match, and against the
\* range '>=4.5' Valid as above the minimum
C28_Witness ==
    /\ NumberDomain
    /\ call.extracted_value = s_NEG_6_0
    /\ \/ /\ call.expected_value = StrCell(s_6_0)
          /\ ret = Ret(TRUE, "Number matches expected value")
       \/ /\ call.expected_value = NaN
          /\ call.allowed_range = StrCell(s_GE_4_5)
          /\ ret = Ret(TRUE, "Number is greater than or equal to minimum")

\* '4.49' against the range '>=-4.5' is below the minimum 4.5
NegativeBoundRead ==
    /\ NumberDomain
    /\ call.extracted_value = s_4_49
    /\ call.expected_value = NaN
    /\ call.allowed_range = StrCell(s_GE_NEG_4_5)
    /\ ret = Ret(FALSE, "Number is below minimum")

(***************************************************************************)
(* api.py: the routes /api/validate and /api/download/<report_type> served *)
(* by concurrent request handlers that share app.config.  A report path is *)
(* the file name the reporter builds from the clock.                       *)
(***************************************************************************)
MaxRequests == 3

MaxClock == 1

Requests == 1..MaxRequests

\* POST /api/validate, GET /api/download/pdf, /excel and any other type
Routes == {"validate", "pdf", "excel", "other"}

NoPath == [ext |-> "", at |-> 0]

NoResponse == [status |-> 0, body |-> "", file |-> NoPath]

Json(status, body) == [status |-> status, body |-> body, file |-> NoPath]

\* send_file(report_path, ...)
File(report_path) == [status |-> 200, body |-> "", file |-> report_path]

Request(route) ==
    [route |-> route, at |-> "start", pdf_path |-> NoPath, excel_path |-> NoPath,
     report_path |-> NoPath, response |-> NoResponse, at_check |-> 0, at_read |-> 0]

\* the handler of request r moves to position at with the fields of upd set
Handle(r, upd) ==
    requests' = [requests EXCEPT ![r] =
                    [f \in DOMAIN requests[r] |->
                        IF f \in DOMAIN upd THEN upd[f] ELSE requests[r][f]]]

Handling(r, route_set, at) ==
    /\ requests[r].route \in route_set
    /\ requests[r].at = at

\* api.py 44-69, 140-142: a request rejected, or an exception before the reports
ValidateError(r) ==
    /\ Handling(r, {"validate"}, "start")
    /\ \E status \in {400, 500} :
           Handle(r, [at |-> "done", response |-> Json(status, "error")])
    /\ UNCHANGED <<app_config, stored, now>>
    /\ UNCHANGED core_vars

\* api.py 72-107: the pipeline, then reporter.generate_pdf_report
GeneratePdf(r) ==
    /\ Handling(r, {"validate"}, "start")
    /\ Handle(r, [at |-> "pdf", pdf_path |-> [ext |-> "pdf", at |-> now]])
    /\ UNCHANGED <<app_config, stored, now>>
    /\ UNCHANGED core_vars

\* api.py 108: reporter.generate_excel_report, or an exception in it (140-142)
GenerateExcel(r) ==
    /\ Handling(r, {"validate"}, "pdf")
    /\ \/ Handle(r, [at |-> "excel", excel_path |-> [ext |-> "xlsx", at |-> now]])
       \/ Handle(r, [at |-> "done", response |-> Json(500, "error")])
    /\ UNCHANGED <<app_config, stored, now>>
    /\ UNCHANGED core_vars

\* variant: the slot assigned one path at a time, the pdf path first
StoreReports_pdf_first(r) ==
    /\ Handling(r, {"validate"}, "excel")
    /\ app_config' = dict_set(app_config, "REPORT_FILES",
                         [pdf |-> requests[r].pdf_path,
                          excel |-> IF dict_has(app_config, "REPORT_FILES")
                                    THEN dict_get(app_config, "REPORT_FILES").excel
                                    ELSE NoPath])
    /\ stored' = Append(stored, r)
    /\ Handle(r, [at |-> "stored"])
    /\ UNCHANGED now
    /\ UNCHANGED core_vars

\* api.py 133-136: app.config['REPORT_FILES'] = {'pdf': pdf_path, 'excel': excel_path}
StoreReports(r) ==
    /\ Handling(r, {"validate"}, "excel")
    /\ app_config' = dict_set(app_config, "REPORT_FILES",
                         [pdf |-> requests[r].pdf_path, excel |-> requests[r].excel_path])
    /\ stored' = Append(stored, r)
    /\ Handle(r, [at |-> "stored"])
    /\ UNCHANGED now
    /\ UNCHANGED core_vars

\* api.py 138
ValidateReturn(r) ==
    /\ Handling(r, {"validate"}, "stored")
    /\ Handle(r, [at |-> "done", response |-> Json(200, "success")])
    /\ UNCHANGED <<app_config, stored, now>>
    /\ UNCHANGED core_vars

\* api.py 147-148
DownloadInvalidType(r) ==
    /\ Handling(r, {"other"}, "start")
    /\ Handle(r, [at |-> "done", response |-> Json(400, "Invalid report type")])
    /\ UNCHANGED <<app_config, stored, now>>
    /\ UNCHANGED core_vars

\* api.py 150-151
DownloadCheck(r) ==
    /\ Handling(r, {"pdf", "excel"}, "start")
    /\ IF ~dict_has(app_config, "REPORT_FILES")
       THEN Handle(r, [at |-> "done", response |-> Json(404, "Report not found"),
                       at_check |-> Len(stored)])
       ELSE Handle(r, [at |-> "read", at_check |-> Len(stored)])
    /\ UNCHANGED <<app_config, stored, now>>
    /\ UNCHANGED core_vars

\* app.config['REPORT_FILES'][report_type]
report_file(report_type) ==
    IF report_type = "pdf" THEN dict_get(app_config, "REPORT_FILES").pdf
    ELSE dict_get(app_config, "REPORT_FILES").excel

\* api.py 153
DownloadRead(r) ==
    /\ Handling(r, {"pdf", "excel"}, "read")
    /\ Handle(r, [at |-> "exists", report_path |-> report_file(requests[r].route),
                  at_read |-> Len(stored)])
    /\ UNCHANGED <<app_config, stored, now>>
    /\ UNCHANGED core_vars

\* api.py 155-167: the file is gone, or it is sent
DownloadSend(r) ==
    /\ Handling(r, {"pdf", "excel"}, "exists")
    /\ \/ Handle(r, [at |-> "done", response |-> Json(404, "Report file not found")])
       \/ Handle(r, [at |-> "done", response |-> File(requests[r].report_path)])
    /\ UNCHANGED <<app_config, stored, now>>
    /\ UNCHANGED core_vars

\* a second passes
Tick ==
    /\ now < MaxClock
    /\ now' = now + 1
    /\ UNCHANGED <<app_config, requests, stored>>
    /\ UNCHANGED core_vars

InitReports ==
    /\ text = <<>>
    /\ ents = <<>>
    /\ terms = <<>>
    /\ names = <<>>
    /\ master_df = <<>>
    /\ normalized_terms = <<>>
    /\ results = <<>>
    /\ libs = <<>>
    /\ call = NoCall
    /\ ret = NoRet
    /\ pc = "serving"
    /\ i = 0
    /\ app_config = <<>>
    /\ requests \in [Requests -> {Request(route) : route \in Routes}]
    /\ stored = <<>>
    /\ now = 0

NextReports ==
    \/ \E r \in Requests : ValidateError(r)
    \/ \E r \in Requests : GeneratePdf(r)
    \/ \E r \in Requests : GenerateExcel(r)
    \/ \E r \in Requests : StoreReports(r)
    \/ \E r \in Requests : ValidateReturn(r)
    \/ \E r \in Requests : DownloadInvalidType(r)
    \/ \E r \in Requests : DownloadCheck(r)
    \/ \E r \in Requests : DownloadRead(r)
    \/ \E r \in Requests : DownloadSend(r)
    \/ Tick

SpecReports == InitReports /\ [][NextReports]_vars

Last(q) == q[Len(q)]

Downloads == {r \in Requests : requests[r].route \in {"pdf", "excel"}}

\* the paths a validate request got from the reporter
ReportsOf(v) == [pdf |-> requests[v].pdf_path, excel |-> requests[v].excel_path]

\* the slot is absent until a validate request stores, and then holds both
\* paths of the request that stored last
SlotIsLastStored ==
    IF stored = <<>> THEN app_config = <<>>
    ELSE app_config = <<[key |-> "REPORT_FILES", value |-> ReportsOf(Last(stored))]>>

\* a request in the history is a validate request past both reports that did
\* not fail
StoredByCompleted ==
    \A k \in 1..Len(stored) :
        /\ requests[stored[k]].route = "validate"
        /\ requests[stored[k]].at \in {"stored", "done"}
        /\ requests[stored[k]].pdf_path.ext = "pdf"
        /\ requests[stored[k]].excel_path.ext = "xlsx"
        /\ requests[stored[k]].at = "done" => requests[stored[k]].response.status = 200
        /\ \A j \in 1..Len(stored) : j # k => stored[j] # stored[k]

Checked(r) == requests[r].at \in {"read", "exists", "done"}

NotFoundBeforeStore ==
    \A r \in Downloads :
        Checked(r) => (requests[r].at_check = 0
                         <=> requests[r].response = Json(404, "Report not found"))

\* a file that is sent is the one the last storing request, at the time of
\* the read, got for this type
ServedFromLastStored ==
    \A r \in Downloads :
        requests[r].response.status = 200
            => /\ requests[r].at_read >= 1
               /\ requests[r].response.file
                    = (IF requests[r].route = "pdf"
                       THEN ReportsOf(stored[requests[r].at_read]).pdf
                       ELSE ReportsOf(stored[requests[r].at_read]).excel)
               /\ requests[r].response.file.ext
                    = (IF requests[r].route = "pdf" THEN "pdf" ELSE "xlsx")

NotFoundThenStored ==
    /\ stored # <<>>
    /\ \E r \in Downloads : requests[r].response = Json(404, "Report not found")

====
